---- MODULE Spec2Model ----
(***************************************************************************)
(* Account ledger core of openmina: the root Merkle database               *)
(* (ledger/src/tree.rs), the mask overlay (ledger/src/mask/mask_impl.rs)   *)
(* and the zkApp step function (ledger/src/scan_state/zkapp_logic.rs).     *)
(*                                                                         *)
(* Option<T> is modelled as a sequence: None is <<>>, Some(x) is <<x>>.    *)
(* A leaf address is modelled by its index (Address::from_index /          *)
(* to_index), a hash value Fp by the term that was hashed, written as a    *)
(* sequence of integers so that two hashes are equal only when their       *)
(* inputs are.                                                             *)
(***************************************************************************)
EXTENDS Integers, Sequences, FiniteSets, TLC

\* ------------------------------------------------------------------ bounds
\* Depth of the ledgers (Database::create(depth)).
Depth == 2
\* Operations performed in one run of the ledger program: the short runs ...
MaxOps == 2
\* ... and the long ones.
MaxDeepOps == 3
\* Longest list handed to set_batch.
MaxBatch == 2

NumLeaves == 2 ^ Depth
Indices == 0 .. (NumLeaves - 1)

\* ------------------------------------------------------------------ options
None == <<>>
Some(x) == <<x>>
IsSome(o) == o # <<>>
IsNone(o) == o = <<>>
Unwrap(o) == o[1]

\* ------------------------------------------------------------------ accounts
\* Account { public_key, token_id, balance, .. }: the fields the ledger reads.
DefaultToken == 0
Tokens == {0, 1}
MkAccount(pk, tok, bal) == [public_key |-> pk, token_id |-> tok, balance |-> bal]
Accounts ==
    { MkAccount(1, 0, 0), MkAccount(1, 0, 1), MkAccount(2, 0, 0), MkAccount(2, 1, 0) }
\* Account::id
AccountIdOf(a) == <<a.public_key, a.token_id>>
Ids == { AccountIdOf(a) : a \in Accounts }
TokenOfId(id) == id[2]

\* ------------------------------------------------------------------ addresses
\* Address::next / Address::prev on leaf addresses, in leaf order.
AddrNext(i) == IF i + 1 < NumLeaves THEN Some(i + 1) ELSE None
AddrPrev(i) == IF i > 0 THEN Some(i - 1) ELSE None
\* Address::first(depth)
AddrFirst == 0

\* ------------------------------------------------------------------ hashing
\* Account::hash / T::hash_leaf: one value per account.
HashLeaf(a) == <<0, a.public_key, a.token_id, a.balance>>
\* Account::empty().hash()
EmptyAccountHash == <<0, 0, 0, 0>>
\* T::hash_node(height, left, right)
HashNode(h, l, r) == <<1, h>> \o l \o r
\* T::empty_hash_at_depth(k): the hash of a fully empty subtree of height k.
RECURSIVE EmptyHashAtDepth(_)
EmptyHashAtDepth(k) ==
    IF k = 0 THEN EmptyAccountHash
    ELSE HashNode(k - 1, EmptyHashAtDepth(k - 1), EmptyHashAtDepth(k - 1))

\* ------------------------------------------------------------------ Database<V2>
\* leaf[i]: a Leaf node exists at index i (inner nodes exist exactly above
\* existing leaves: add_account_on_path creates them, nothing deletes them);
\* account[i]: that leaf's account.
DbEmpty ==
    [ leaf |-> [i \in Indices |-> FALSE],
      account |-> [i \in Indices |-> None],
      id_to_addr |-> [id \in Ids |-> None],
      token_to_account |-> [t \in Tokens |-> None],
      last_location |-> None,
      naccounts |-> 0,
      root_hash |-> None ]

\* self.root.is_some()
DbHasRoot(d) == \E i \in Indices : d.leaf[i]

\* Database::get
DbGet(d, addr) == IF addr \in Indices THEN d.account[addr] ELSE None

\* Database::location_of_account
DbLocationOfAccount(d, id) == d.id_to_addr[id]

\* Database::index_of_account
DbIndexOfAccount(d, id) == d.id_to_addr[id]

\* Database::token_owner
DbTokenOwner(d, t) == d.token_to_account[t]

\* Database::last_filled
DbLastFilled(d) == d.last_location

\* Database::num_accounts
DbNumAccounts(d) == d.naccounts

\* Leaf indices below the node at (level, pos): level 0 is the root.
LeavesUnder(level, pos) ==
    { i \in Indices : i \div (2 ^ (Depth - level)) = pos }

\* The node at (level, pos) exists in the tree.
NodeExists(d, level, pos) == \E i \in LeavesUnder(level, pos) : d.leaf[i]

\* NodeOrLeaf::hash as it would be if a missing child were given the empty
\* hash of the node's own height instead of the child's.
RECURSIVE NodeHashWrongHeight(_, _, _)
NodeHashWrongHeight(d, level, pos) ==
    IF level = Depth
    THEN IF IsSome(d.account[pos]) THEN HashLeaf(Unwrap(d.account[pos]))
         ELSE EmptyHashAtDepth(0)
    ELSE LET depth == Depth - 1 - level
             left_hash == IF NodeExists(d, level + 1, 2 * pos)
                          THEN NodeHashWrongHeight(d, level + 1, 2 * pos)
                          ELSE EmptyHashAtDepth(depth + 1)
             right_hash == IF NodeExists(d, level + 1, 2 * pos + 1)
                           THEN NodeHashWrongHeight(d, level + 1, 2 * pos + 1)
                           ELSE EmptyHashAtDepth(depth + 1)
         IN HashNode(depth, left_hash, right_hash)

\* NodeOrLeaf::hash(depth) for the node at (level, pos); the argument depth of
\* the code is Depth - 1 - level.
RECURSIVE NodeHash(_, _, _)
NodeHash(d, level, pos) ==
    IF level = Depth
    THEN IF IsSome(d.account[pos]) THEN HashLeaf(Unwrap(d.account[pos]))
         ELSE EmptyHashAtDepth(0)
    ELSE LET depth == Depth - 1 - level
             left_hash == IF NodeExists(d, level + 1, 2 * pos)
                          THEN NodeHash(d, level + 1, 2 * pos)
                          ELSE EmptyHashAtDepth(depth)
             right_hash == IF NodeExists(d, level + 1, 2 * pos + 1)
                           THEN NodeHash(d, level + 1, 2 * pos + 1)
                           ELSE EmptyHashAtDepth(depth)
         IN HashNode(depth, left_hash, right_hash)

\* Database::root_hash
DbRootHash(d) ==
    IF DbHasRoot(d) THEN NodeHash(d, 0, 0) ELSE EmptyHashAtDepth(Depth)

\* Database::merkle_root: the value returned (the cached one when present).
DbMerkleRootValue(d) == IF IsSome(d.root_hash) THEN Unwrap(d.root_hash) ELSE DbRootHash(d)

\* Database::merkle_root: the database afterwards (the cache is filled).
DbMerkleRoot(d) == [d EXCEPT !.root_hash = Some(DbMerkleRootValue(d))]

\* Database::create_account as it would be without the insert into
\* id_to_addr.
DbCreateAccountNoIndex(d, account_id, account) ==
    IF IsSome(d.id_to_addr[account_id])
    THEN [db |-> d, tag |-> "Existed", addr |-> Unwrap(d.id_to_addr[account_id])]
    ELSE LET location == IF IsSome(d.last_location)
                         THEN AddrNext(Unwrap(d.last_location))
                         ELSE Some(AddrFirst)
         IN IF IsNone(location)
            THEN [db |-> d, tag |-> "OutOfLeaves", addr |-> -1]
            ELSE LET loc == Unwrap(location)
                 IN [ db |-> [d EXCEPT
                         !.leaf[loc] = TRUE,
                         !.account[loc] = Some(account),
                         !.last_location = Some(loc),
                         !.naccounts = @ + 1,
                         !.token_to_account[account.token_id] = Some(account_id),
                         !.root_hash = None],
                      tag |-> "Added",
                      addr |-> loc ]

\* Database::create_account / Database::get_or_create_account.
\* Result: [db, tag, addr] with tag in {"Added", "Existed", "OutOfLeaves"}.
DbCreateAccount(d, account_id, account) ==
    IF IsSome(d.id_to_addr[account_id])
    THEN [db |-> d, tag |-> "Existed", addr |-> Unwrap(d.id_to_addr[account_id])]
    ELSE LET location == IF IsSome(d.last_location)
                         THEN AddrNext(Unwrap(d.last_location))
                         ELSE Some(AddrFirst)
         IN IF IsNone(location)
            THEN [db |-> d, tag |-> "OutOfLeaves", addr |-> -1]
            ELSE LET loc == Unwrap(location)
                 IN [ db |-> [d EXCEPT
                         !.leaf[loc] = TRUE,
                         !.account[loc] = Some(account),
                         !.last_location = Some(loc),
                         !.naccounts = @ + 1,
                         !.token_to_account[account.token_id] = Some(account_id),
                         !.id_to_addr[account_id] = Some(loc),
                         !.root_hash = None],
                      tag |-> "Added",
                      addr |-> loc ]

\* Database::set as it would be if it left the memoized root hash in place.
DbSetKeepRootHash(d, addr, account) ==
    LET id == AccountIdOf(account)
        old == d.account[addr]
        d1 == IF IsSome(old)
              THEN [d EXCEPT !.id_to_addr[AccountIdOf(Unwrap(old))] = None,
                             !.token_to_account[Unwrap(old).token_id] = None]
              ELSE [d EXCEPT !.naccounts = @ + 1]
    IN [d1 EXCEPT
          !.token_to_account[account.token_id] = Some(id),
          !.id_to_addr[id] = Some(addr),
          !.leaf[addr] = TRUE,
          !.account[addr] = Some(account),
          !.last_location = IF IsNone(d1.last_location) \/ Unwrap(d1.last_location) < addr
                            THEN Some(addr) ELSE @]

\* set as it would be if the indices of the account that the leaf held were
\* left in place.
DbSetKeepOldIndex(d, addr, account) ==
    [d EXCEPT
       !.naccounts = IF IsSome(d.account[addr]) THEN @ ELSE @ + 1,
       !.token_to_account[account.token_id] = Some(AccountIdOf(account)),
       !.id_to_addr[AccountIdOf(account)] = Some(addr),
       !.leaf[addr] = TRUE,
       !.account[addr] = Some(account),
       !.last_location = IF IsNone(d.last_location) \/ Unwrap(d.last_location) < addr
                         THEN Some(addr) ELSE @,
       !.root_hash = None]

\* Database::set
DbSet(d, addr, account) ==
    LET id == AccountIdOf(account)
        old == d.account[addr]
        d1 == IF IsSome(old)
              THEN [d EXCEPT !.id_to_addr[AccountIdOf(Unwrap(old))] = None,
                             !.token_to_account[Unwrap(old).token_id] = None]
              ELSE [d EXCEPT !.naccounts = @ + 1]
    IN [d1 EXCEPT
          !.token_to_account[account.token_id] = Some(id),
          !.id_to_addr[id] = Some(addr),
          !.leaf[addr] = TRUE,
          !.account[addr] = Some(account),
          !.last_location = IF IsNone(d1.last_location) \/ Unwrap(d1.last_location) < addr
                            THEN Some(addr) ELSE @,
          !.root_hash = None]

\* The addresses of a removal in the order the loop visits them: sorted by
\* index, then reversed.
RECURSIVE SortedDesc(_, _)
SortedDesc(addrOf, ids) ==
    IF ids = {} THEN <<>>
    ELSE LET top == CHOOSE x \in ids : \A y \in ids : addrOf[y] <= addrOf[x]
         IN <<addrOf[top]>> \o SortedDesc(addrOf, ids \ {top})

\* The loop body of Database::remove_accounts for one address.
\* r is [db, panic].
DbRemoveOne(r, addr) ==
    LET d == r.db
    IN IF r.panic # "none" THEN r
       ELSE IF ~d.leaf[addr] \/ IsNone(d.account[addr]) THEN r
       ELSE LET account == Unwrap(d.account[addr])
                id == AccountIdOf(account)
            IN IF d.naccounts = 0
               THEN [r EXCEPT !.panic = "invalid naccounts counter"]
               ELSE [r EXCEPT !.db =
                       [d EXCEPT
                          !.account[addr] = None,
                          !.id_to_addr[id] = None,
                          !.token_to_account[TokenOfId(id)] = None,
                          !.naccounts = @ - 1,
                          !.last_location = IF @ = Some(addr) THEN AddrPrev(addr) ELSE @]]

RECURSIVE DbRemoveLoop(_, _)
DbRemoveLoop(r, addrs) ==
    IF addrs = <<>> THEN r
    ELSE DbRemoveLoop(DbRemoveOne(r, Head(addrs)), Tail(addrs))

\* Database::remove_accounts(ids), ids without repetition. Result [db, panic].
DbRemoveAccounts(d, ids) ==
    IF ~DbHasRoot(d) THEN [db |-> d, panic |-> "none"]
    ELSE IF \E id \in ids : IsNone(d.id_to_addr[id])
    THEN [db |-> d, panic |-> "unwrap on None"]
    ELSE LET addrOf == [id \in ids |-> Unwrap(d.id_to_addr[id])]
             d1 == [d EXCEPT !.id_to_addr =
                       [id \in Ids |-> IF id \in ids THEN None ELSE d.id_to_addr[id]]]
             r == DbRemoveLoop([db |-> d1, panic |-> "none"], SortedDesc(addrOf, ids))
         IN [r EXCEPT !.db.root_hash = None]

\* ------------------------------------------------------------------ MaskImpl
\* Ledger 0 is MaskImpl::Root (it wraps the database); the other ledgers are
\* MaskImpl::Attached, a mask and its sibling, both registered in the childs
\* map of the root.
Root == 0
Masks == {1, 2}
Ledgers == {Root} \cup Masks
\* MaskImpl::get_parent
ParentOf(m) == Root
\* MaskImpl::children
Children(l) == { c \in Masks : ParentOf(c) = l }

VARIABLES
    db,               \* the Database<V2> inside MaskImpl::Root
    masks,            \* the fields of each MaskImpl::Attached
    panicked,         \* "none", or the message of the panic that aborted the program
    nops,             \* number of operations performed so far
    limit,            \* number of operations this run performs at most
    last_op,          \* the last operation: its name, ledger, argument and result
    global_state,     \* GlobalState of the zkApp step: ledger and fee excess
    local_state,      \* LocalStateEnv of the zkApp step
    command           \* the zkApp command in progress, as its caller sees it

\* naccounts is a usize; it is kept as the representative of its value modulo
\* 2^64 that lies nearest to 0, so that 0 - 1 (wrapping) reads -1.
MaskEmpty ==
    [ owning_account |-> [i \in Indices |-> None],
      token_to_account |-> [t \in Tokens |-> None],
      id_to_addr |-> [id \in Ids |-> None],
      last_location |-> None,
      first_location_in_mask |-> None,
      naccounts |-> 0 ]

\* A world is the database, the masks, the panic raised so far, if any,
\* whether a usize subtraction went below 0: a build with overflow checks
\* (debug) panics there, a build without them (release) wraps; and the calls
\* of parent_set_notify made so far, each as <<child, address, account>>.
World == [db |-> db, masks |-> masks, panic |-> "none", underflow |-> FALSE, notified |-> {}]

\* MaskImpl::get as it would be if it asked the parent first and the overlay
\* only when the parent has no account.
GetParentFirst(w, l, addr) ==
    IF l = Root THEN DbGet(w.db, addr)
    ELSE IF IsSome(DbGet(w.db, addr)) THEN DbGet(w.db, addr)
         ELSE IF addr \in Indices THEN w.masks[l].owning_account[addr]
         ELSE None

\* MaskImpl::get
RECURSIVE Get(_, _, _)
Get(w, l, addr) ==
    IF l = Root THEN DbGet(w.db, addr)
    ELSE IF addr \in Indices /\ IsSome(w.masks[l].owning_account[addr])
         THEN w.masks[l].owning_account[addr]
         ELSE Get(w, ParentOf(l), addr)

\* MaskImpl::location_of_account
RECURSIVE LocationOfAccount(_, _, _)
LocationOfAccount(w, l, account_id) ==
    IF l = Root THEN DbLocationOfAccount(w.db, account_id)
    ELSE IF IsSome(w.masks[l].id_to_addr[account_id])
         THEN w.masks[l].id_to_addr[account_id]
         ELSE LocationOfAccount(w, ParentOf(l), account_id)

\* MaskImpl::index_of_account
RECURSIVE IndexOfAccount(_, _, _)
IndexOfAccount(w, l, account_id) ==
    IF l = Root THEN DbIndexOfAccount(w.db, account_id)
    ELSE IF IsSome(w.masks[l].id_to_addr[account_id])
         THEN w.masks[l].id_to_addr[account_id]
         ELSE IndexOfAccount(w, ParentOf(l), account_id)

\* MaskImpl::token_owner
RECURSIVE TokenOwner(_, _, _)
TokenOwner(w, l, token_id) ==
    IF l = Root THEN DbTokenOwner(w.db, token_id)
    ELSE IF IsSome(w.masks[l].token_to_account[token_id])
         THEN w.masks[l].token_to_account[token_id]
         ELSE TokenOwner(w, ParentOf(l), token_id)

\* MaskImpl::last_filled
RECURSIVE LastFilled(_, _)
LastFilled(w, l) ==
    IF l = Root THEN DbLastFilled(w.db)
    ELSE LET last_filled_parent == LastFilled(w, ParentOf(l))
             last_location == w.masks[l].last_location
         IN IF IsNone(last_filled_parent) THEN last_location
            ELSE IF IsNone(last_location) THEN last_filled_parent
            ELSE IF Unwrap(last_location) > Unwrap(last_filled_parent)
                 THEN last_location
                 ELSE last_filled_parent

\* MaskImpl::num_accounts
NumAccounts(w, l) ==
    LET last == LastFilled(w, l) IN IF IsSome(last) THEN Unwrap(last) + 1 ELSE 0

\* MaskImpl::emulate_recursive. Result [hash, index]: the hash and the value
\* left in *account_index.
RECURSIVE EmulateRecursive(_, _, _, _, _)
EmulateRecursive(w, l, current_depth, account_index, naccounts) ==
    IF current_depth = Depth
    THEN LET account == Get(w, l, account_index)
         IN IF IsNone(account)
            THEN [hash |-> EmptyHashAtDepth(0), index |-> account_index]
            ELSE [hash |-> HashLeaf(Unwrap(account)), index |-> account_index + 1]
    ELSE LET left == EmulateRecursive(w, l, current_depth + 1, account_index, naccounts)
             right == IF left.index < naccounts
                      THEN EmulateRecursive(w, l, current_depth + 1, left.index, naccounts)
                      ELSE [hash |-> EmptyHashAtDepth(Depth - current_depth),
                            index |-> left.index]
         IN [hash |-> HashNode(Depth - current_depth, left.hash, right.hash),
             index |-> right.index]

\* MaskImpl::merkle_root (emulate_tree_to_get_hash)
MerkleRoot(w, l) == EmulateRecursive(w, l, 0, 0, NumAccounts(w, l)).hash

\* One iteration of the loop of MaskImpl::remove_own_account.
\* r is [mask, panic, underflow].
RemoveOwnOne(r, addr) ==
    LET m == r.mask
    IN IF r.panic # "none" THEN r
       ELSE IF IsNone(m.owning_account[addr])
       THEN [r EXCEPT !.panic = "unwrap on None"]
       ELSE LET account == Unwrap(m.owning_account[addr])
            IN IF IsNone(m.token_to_account[account.token_id])
               THEN [r EXCEPT !.panic = "unwrap on None"]
               ELSE LET last1 == IF m.last_location = Some(addr)
                                 THEN AddrPrev(addr) ELSE m.last_location
                        isFirst == m.first_location_in_mask = Some(addr)
                    IN [r EXCEPT
                          !.underflow = @ \/ m.naccounts = 0,
                          !.mask =
                          [m EXCEPT
                             !.owning_account[addr] = None,
                             !.token_to_account[account.token_id] = None,
                             !.last_location = IF isFirst THEN None ELSE last1,
                             !.first_location_in_mask = IF isFirst THEN None ELSE @,
                             !.naccounts = @ - 1]]

RECURSIVE RemoveOwnLoop(_, _)
RemoveOwnLoop(r, addrs) ==
    IF addrs = <<>> THEN r
    ELSE RemoveOwnLoop(RemoveOwnOne(r, Head(addrs)), Tail(addrs))

\* MaskImpl::remove_own_account(ids), ids without repetition.
\* Result [mask, panic, underflow].
RemoveOwnAccount(m, ids) ==
    IF \E id \in ids : IsNone(m.id_to_addr[id])
    THEN [mask |-> m, panic |-> "unwrap on None", underflow |-> FALSE]
    ELSE LET addrOf == [id \in ids |-> Unwrap(m.id_to_addr[id])]
             m1 == [m EXCEPT !.id_to_addr =
                      [id \in Ids |-> IF id \in ids THEN None ELSE m.id_to_addr[id]]]
         IN RemoveOwnLoop([mask |-> m1, panic |-> "none", underflow |-> FALSE],
                          SortedDesc(addrOf, ids))

\* MaskImpl::parent_set_notify. Result [mask, panic, underflow].
ParentSetNotify(m, account) ==
    LET account_id == AccountIdOf(account)
        addr == m.id_to_addr[account_id]
        own_account == IF IsSome(addr) THEN m.owning_account[Unwrap(addr)] ELSE None
    IN IF IsNone(own_account) THEN [mask |-> m, panic |-> "none", underflow |-> FALSE]
       ELSE IF Unwrap(own_account) # account
       THEN [mask |-> m, panic |-> "none", underflow |-> FALSE]
       ELSE RemoveOwnAccount(m, {account_id})

\* The first panic of a set of results, "none" when there is none.
FirstPanic(ps) == IF \E p \in ps : p # "none" THEN CHOOSE p \in ps : p # "none" ELSE "none"

\* The Attached arm of MaskImpl::set_impl: the write into the overlay.
MaskInsert(m, addr, account, existing) ==
    LET account_id == AccountIdOf(account)
    IN [m EXCEPT
          !.owning_account[addr] = Some(account),
          !.id_to_addr[account_id] = Some(addr),
          !.token_to_account[account.token_id] = Some(account_id),
          !.naccounts = IF existing THEN @ ELSE @ + 1,
          !.last_location = IF IsNone(@) \/ Unwrap(@) < addr THEN Some(addr) ELSE @,
          !.first_location_in_mask = IF IsNone(@) \/ Unwrap(@) > addr THEN Some(addr) ELSE @]

\* The loop of MaskImpl::set_impl over the children as it would be without
\* the test of child_to_ignore.
NotifiedChildrenAll(l, child_to_ignore) == Children(l)

\* The children that the loop of MaskImpl::set_impl over childs notifies.
NotifiedChildren(l, child_to_ignore) == { c \in Children(l) : Some(c) # child_to_ignore }

\* MaskImpl::set_impl(addr, account, child_to_ignore); child_to_ignore is a mask
\* or None. Result: the world afterwards.
SetImpl(w, l, addr, account, child_to_ignore) ==
    IF w.panic # "none" THEN w
    ELSE
    LET notified == NotifiedChildren(l, child_to_ignore)
        notify == [c \in notified |-> ParentSetNotify(w.masks[c], account)]
        masks1 == [c \in Masks |-> IF c \in notified THEN notify[c].mask ELSE w.masks[c]]
        panic1 == FirstPanic({ notify[c].panic : c \in notified })
        w1 == [w EXCEPT !.masks = masks1, !.panic = panic1,
                        !.underflow = @ \/ \E c \in notified : notify[c].underflow,
                        !.notified = @ \cup { <<c, addr, account>> : c \in notified }]
    IN IF panic1 # "none" THEN w1
       ELSE IF l = Root THEN [w1 EXCEPT !.db = DbSet(w1.db, addr, account)]
       ELSE LET existing == IsSome(Get(w1, l, addr))
            IN [w1 EXCEPT !.masks[l] = MaskInsert(w1.masks[l], addr, account, existing)]

\* MaskImpl::get_or_create_account as it would be without the lookup of the
\* id that returns Existed.
GetOrCreateAccountNoLookup(w, l, account_id, account) ==
    IF l = Root
    THEN LET r == DbCreateAccount(w.db, account_id, account)
         IN [w |-> [w EXCEPT !.db = r.db], tag |-> r.tag, addr |-> r.addr]
    ELSE LET last_filled == LastFilled(w, l)
             location == IF IsSome(last_filled) THEN AddrNext(Unwrap(last_filled))
                         ELSE Some(AddrFirst)
         IN IF IsNone(location)
            THEN [w |-> [w EXCEPT !.panic = "unwrap on Err(OutOfLeaves)"],
                  tag |-> "panic", addr |-> -1]
            ELSE LET at == Unwrap(location)
                 IN [ w |-> [w EXCEPT !.masks[l] =
                              [@ EXCEPT
                                 !.id_to_addr[account_id] = Some(at),
                                 !.last_location = Some(at),
                                 !.token_to_account[account.token_id] = Some(account_id),
                                 !.owning_account[at] = Some(account),
                                 !.naccounts = @ + 1,
                                 !.first_location_in_mask =
                                     IF IsNone(@) THEN Some(at) ELSE @]],
                      tag |-> "Added",
                      addr |-> at ]

\* MaskImpl::get_or_create_account. Result [w, tag, addr]; w.panic is set when
\* the call panics.
GetOrCreateAccount(w, l, account_id, account) ==
    LET loc == LocationOfAccount(w, l, account_id)
    IN IF IsSome(loc) THEN [w |-> w, tag |-> "Existed", addr |-> Unwrap(loc)]
       ELSE IF l = Root
       THEN LET r == DbCreateAccount(w.db, account_id, account)
            IN [w |-> [w EXCEPT !.db = r.db], tag |-> r.tag, addr |-> r.addr]
       ELSE LET last_filled == LastFilled(w, l)
                location == IF IsSome(last_filled) THEN AddrNext(Unwrap(last_filled))
                            ELSE Some(AddrFirst)
            IN IF IsNone(location)
               THEN [w |-> [w EXCEPT !.panic = "unwrap on Err(OutOfLeaves)"],
                     tag |-> "panic", addr |-> -1]
               ELSE LET at == Unwrap(location)
                    IN [ w |-> [w EXCEPT !.masks[l] =
                                 [@ EXCEPT
                                    !.id_to_addr[account_id] = Some(at),
                                    !.last_location = Some(at),
                                    !.token_to_account[account.token_id] = Some(account_id),
                                    !.owning_account[at] = Some(account),
                                    !.naccounts = @ + 1,
                                    !.first_location_in_mask =
                                        IF IsNone(@) THEN Some(at) ELSE @]],
                         tag |-> "Added",
                         addr |-> at ]

\* MaskImpl::remove_accounts(ids). Result: the world afterwards.
RECURSIVE RemoveAccounts(_, _, _)
RemoveAccounts(w, l, ids) ==
    IF w.panic # "none" THEN w
    ELSE IF l = Root
    THEN LET r == DbRemoveAccounts(w.db, ids)
         IN [w EXCEPT !.db = r.db, !.panic = r.panic]
    ELSE LET mask_keys == { id \in ids : IsSome(w.masks[l].id_to_addr[id]) }
             parent_keys == ids \ mask_keys
             w1 == IF parent_keys # {} THEN RemoveAccounts(w, ParentOf(l), parent_keys)
                   ELSE w
             r == RemoveOwnAccount(w1.masks[l], mask_keys)
         IN IF w1.panic # "none" THEN w1
            ELSE [w1 EXCEPT !.masks[l] = r.mask, !.panic = r.panic,
                            !.underflow = @ \/ r.underflow]

\* The writes of MaskImpl::commit into the parent, in the order `order` (the
\* iteration order of the HashMap taken out of the mask).
RECURSIVE CommitWrites(_, _, _, _)
CommitWrites(w, m, accounts, order) ==
    IF order = <<>> THEN w
    ELSE CommitWrites(
            SetImpl(w, ParentOf(m), Head(order), Unwrap(accounts[Head(order)]), Some(m)),
            m, accounts, Tail(order))

\* MaskImpl::commit. Result: the world afterwards.
Commit(w, m, order) ==
    LET old_root_hash == MerkleRoot(w, m)
        accounts == w.masks[m].owning_account
        w1 == [w EXCEPT !.masks[m] =
                 [@ EXCEPT !.token_to_account = [t \in Tokens |-> None],
                           !.id_to_addr = [id \in Ids |-> None],
                           !.owning_account = [i \in Indices |-> None]]]
        w2 == CommitWrites(w1, m, accounts, order)
    IN IF w2.panic # "none" THEN w2
       ELSE IF old_root_hash # MerkleRoot(w2, ParentOf(m))
       THEN [w2 EXCEPT !.panic = "assertion failed: old_root_hash == parent.merkle_root()"]
       ELSE w2

\* All orders in which a HashMap may hand out the keys in S.
RECURSIVE Orders(_)
Orders(S) ==
    IF S = {} THEN { <<>> }
    ELSE UNION { { <<x>> \o rest : rest \in Orders(S \ {x}) } : x \in S }

\* MaskImpl::set_batch: set for each pair of the list, in order.
RECURSIVE SetBatchImpl(_, _, _)
SetBatchImpl(w, l, list) ==
    IF list = <<>> THEN w
    ELSE SetBatchImpl(SetImpl(w, l, Head(list).addr, Head(list).account, None),
                      l, Tail(list))

\* ------------------------------------------------------------------ currency
\* Amount, Balance and Fee are unsigned magnitudes of AmountBits bits (64 in the
\* code); Signed<T> is an integer between -MaxAmount and MaxAmount.
AmountBits == 2
MaxAmount == 2 ^ AmountBits - 1
Signeds == (0 - MaxAmount) .. MaxAmount

\* Signed::add_flagged: the sum and whether its magnitude overflowed.
AddFlagged(x, y) ==
    LET s == x + y
    IN IF s > MaxAmount THEN [value |-> s - (MaxAmount + 1), overflow |-> TRUE]
       ELSE IF s < 0 - MaxAmount THEN [value |-> s + (MaxAmount + 1), overflow |-> TRUE]
       ELSE [value |-> s, overflow |-> FALSE]

\* Balance::add_signed_amount_flagged: the new balance and whether it left the
\* range of a balance.
AddSignedAmountFlagged(balance, x) ==
    LET s == balance + x
    IN IF s > MaxAmount THEN [value |-> s - (MaxAmount + 1), overflow |-> TRUE]
       ELSE IF s < 0 THEN [value |-> s + (MaxAmount + 1), overflow |-> TRUE]
       ELSE [value |-> s, overflow |-> FALSE]

\* Signed::is_pos
IsPos(x) == x >= 0

\* ------------------------------------------------------------------ zkApp accounts
\* The ids of the ledgers the zkApp step works on.
PublicKeys == {1, 2}
ZkIds == { <<pk, t>> : pk \in PublicKeys, t \in Tokens }

\* AccountId::derive_token_id: the token owned by an account.
DeriveTokenId(id) == 2 * id[1] + id[2] - 1

\* The attributes of an account that an account update sets or keeps, each
\* with the permission that guards it.
Attrs ==
    { "app_state", "verification_key", "sequence_events", "zkapp_uri",
      "token_symbol", "delegate", "voting_for", "permissions" }
PermissionOf(attr) ==
    CASE attr = "app_state" -> "edit_state"
      [] attr = "verification_key" -> "set_verification_key"
      [] attr = "sequence_events" -> "edit_sequence_state"
      [] attr = "zkapp_uri" -> "set_zkapp_uri"
      [] attr = "token_symbol" -> "set_token_symbol"
      [] attr = "delegate" -> "set_delegate"
      [] attr = "voting_for" -> "set_voting_for"
      [] attr = "permissions" -> "set_permissions"
PermissionNames ==
    { PermissionOf(attr) : attr \in Attrs } \cup {"send", "receive", "increment_nonce"}

\* Permissions::user_default
UserDefault ==
    [p \in PermissionNames |-> IF p = "receive" THEN "None" ELSE "Signature"]

\* Account::initialize(id): the account get_account hands out for a new id.
ZkNewAccount(id) ==
    [ public_key |-> id[1], token_id |-> id[2], balance |-> 0, nonce |-> 0,
      permissions |-> UserDefault, fields |-> [attr \in Attrs |-> 0] ]

\* L::empty(depth)
ZkEmptyLedger == [id \in ZkIds |-> None]

\* get_account(ledger, account_id): the account and whether it is new.
GetAccount(ledger, id) ==
    IF IsSome(ledger[id]) THEN [account |-> Unwrap(ledger[id]), is_new |-> FALSE]
    ELSE [account |-> ZkNewAccount(id), is_new |-> TRUE]

\* set_account(ledger, (a, loc))
SetAccount(ledger, a) ==
    [ledger EXCEPT ![<<a.public_key, a.token_id>>] = Some(a)]

\* check_permission(perm, tag)
CheckPermission(perm, tag) ==
    CASE perm = "None" -> TRUE
      [] perm = "Either" -> tag \in {"Proof", "Signature"}
      [] perm = "Proof" -> tag = "Proof"
      [] perm = "Signature" -> tag = "Signature"
      [] perm = "Impossible" -> FALSE

\* controller_check(proof_verifies, signature_verifies, perm); the caller has
\* checked that not both verify.
ControllerCheck(proof_verifies, signature_verifies, perm) ==
    LET tag == IF proof_verifies THEN "Proof"
               ELSE IF signature_verifies THEN "Signature"
               ELSE "NoneGiven"
    IN CheckPermission(perm, tag)

\* ------------------------------------------------------------------ local state
\* StackFrame::default
DefaultFrame == [caller |-> DefaultToken, caller_caller |-> DefaultToken, calls |-> <<>>]

\* LocalStateEnv: the state of the command in progress. The head of
\* failure_status_tbl is the bucket of the current step.
LocalStateInit ==
    [ stack_frame |-> DefaultFrame,
      call_stack |-> <<>>,
      token_id |-> DefaultToken,
      excess |-> 0,
      ledger |-> ZkEmptyLedger,
      success |-> TRUE,
      account_update_index |-> 0,
      failure_status_tbl |-> <<>> ]

\* LocalStateEnv::add_check(failure, b): b is the check; when it does not hold
\* the failure goes into the current bucket and success becomes false.
AddCheck(ls, failure, b) ==
    IF b THEN ls
    ELSE [ls EXCEPT
            !.success = FALSE,
            !.failure_status_tbl =
                IF @ = <<>> THEN << <<failure>> >>
                ELSE << <<failure>> \o Head(@) >> \o Tail(@)]

\* add_check for a list of <<failure, b>> pairs, in order.
RECURSIVE AddChecks(_, _)
AddChecks(ls, checks) ==
    IF checks = <<>> THEN ls
    ELSE AddChecks(AddCheck(ls, Head(checks)[1], Head(checks)[2]), Tail(checks))

\* LocalStateEnv::add_new_failure_status_bucket
AddNewFailureStatusBucket(ls) ==
    [ls EXCEPT !.failure_status_tbl = << <<>> >> \o @]

\* The command in progress as its caller sees it: the global ledger before
\* its start step and after it, that ledger with the account of every step
\* written into it, whether a step recorded a failure, whether the last
\* step is done, the forest of the command and the account updates its steps
\* have processed, in their order.
CommandInit ==
    [ before |-> ZkEmptyLedger, after_start |-> ZkEmptyLedger, writes |-> ZkEmptyLedger,
      failed |-> FALSE, steps |-> 0, done |-> FALSE, forest |-> <<>>, processed |-> <<>> ]

\* The number of failures in a failure_status_tbl.
RECURSIVE Failures(_)
Failures(tbl) == IF tbl = <<>> THEN 0 ELSE Len(Head(tbl)) + Failures(Tail(tbl))

\* pop_call_stack: the top frame and the rest, a default frame when empty.
PopCallStack(s) ==
    IF s # <<>> THEN [frame |-> Head(s), stack |-> Tail(s)]
    ELSE [frame |-> DefaultFrame, stack |-> <<>>]

\* get_next_account_update(current_forest, call_stack).
\* Result [panic, account_update, account_update_forest, new_frame, new_call_stack].
GetNextAccountUpdate(current_forest0, call_stack0) ==
    LET next == PopCallStack(call_stack0)
        current_forest == IF current_forest0.calls = <<>> THEN next.frame ELSE current_forest0
        call_stack == IF current_forest0.calls = <<>> THEN next.stack ELSE call_stack0
    IN IF current_forest.calls = <<>>
       THEN [panic |-> "pop_exn on an empty forest"]
       ELSE
       LET account_update == Head(current_forest.calls).elt
           account_update_forest == Head(current_forest.calls).calls
           remainder_of_current_forest == Tail(current_forest.calls)
           is_normal_call == account_update.caller = current_forest.caller
           is_delegate_call == account_update.caller = current_forest.caller_caller
           popped == PopCallStack(call_stack)
           remainder_of_current_forest_frame ==
               [ caller |-> current_forest.caller,
                 caller_caller |-> current_forest.caller_caller,
                 calls |-> remainder_of_current_forest ]
           new_call_stack ==
               IF account_update_forest = <<>>
               THEN IF remainder_of_current_forest = <<>> THEN popped.stack ELSE call_stack
               ELSE IF remainder_of_current_forest = <<>> THEN call_stack
                    ELSE <<remainder_of_current_forest_frame>> \o call_stack
           new_frame ==
               IF account_update_forest = <<>>
               THEN IF remainder_of_current_forest = <<>> THEN popped.frame
                    ELSE remainder_of_current_forest_frame
               ELSE [ caller |-> IF is_normal_call
                                 THEN DeriveTokenId(<<account_update.public_key,
                                                      account_update.token_id>>)
                                 ELSE current_forest.caller,
                      caller_caller |-> account_update.caller,
                      calls |-> account_update_forest ]
       IN IF ~(is_normal_call \/ is_delegate_call)
          THEN [panic |-> "assertion failed: is_normal_call || is_delegate_call"]
          ELSE [ panic |-> "none",
                 account_update |-> account_update,
                 account_update_forest |-> account_update_forest,
                 new_frame |-> new_frame,
                 new_call_stack |-> new_call_stack ]

\* set_ledger as it would be if it applied the mask whatever should_update is.
SetLedgerAlways(should_update, t, ledger) == [t EXCEPT !.ledger = ledger]

\* set_ledger(should_update, t, ledger); apply_mask makes the global ledger the
\* given one.
SetLedger(should_update, t, ledger) ==
    IF should_update THEN [t EXCEPT !.ledger = ledger] ELSE t

\* SetOrKeep::set_or_keep: a SetOrKeep is an option, Keep is None.
SetOrKeep(x, old) == IF IsSome(x) THEN Unwrap(x) ELSE old

\* The account the step writes: the loaded account a after the balance change
\* and the field updates of account_update.
UpdatedAccount(a, account_update) ==
    LET balance == AddSignedAmountFlagged(a.balance, account_update.balance_change).value
        nonce == IF account_update.increment_nonce THEN a.nonce + 1 ELSE a.nonce
        field(attr) ==
            IF attr = "verification_key" /\ a.fields[attr] = 0 THEN a.fields[attr]
            ELSE SetOrKeep(account_update.set[attr], a.fields[attr])
    IN [ public_key |-> a.public_key,
         token_id |-> account_update.token_id,
         balance |-> balance,
         nonce |-> nonce,
         permissions |-> SetOrKeep(account_update.set["permissions"], a.permissions),
         fields |-> [attr \in Attrs |->
                        IF attr = "permissions" THEN a.fields[attr] ELSE field(attr)] ]

\* The failure recorded when the permission of an attribute denies an update.
UpdateNotPermitted(attr) ==
    CASE attr = "app_state" -> "UpdateNotPermittedAppState"
      [] attr = "verification_key" -> "UpdateNotPermittedVerificationKey"
      [] attr = "sequence_events" -> "UpdateNotPermittedAppState"
      [] attr = "zkapp_uri" -> "UpdateNotPermittedZkappUri"
      [] attr = "token_symbol" -> "UpdateNotPermittedTokenSymbol"
      [] attr = "delegate" -> "UpdateNotPermittedDelegate"
      [] attr = "voting_for" -> "UpdateNotPermittedVotingFor"
      [] attr = "permissions" -> "UpdateNotPermittedPermissions"

\* The check of apply for the update of one attribute.
AttrCheck(a, account_update, attr) ==
    LET has_permission ==
            ControllerCheck(account_update.proof_verifies,
                            account_update.signature_verifies,
                            a.permissions[PermissionOf(attr)])
    IN << UpdateNotPermitted(attr),
          IsNone(account_update.set[attr])
             \/ (has_permission
                   /\ (attr = "delegate" => account_update.token_id = DefaultToken)) >>

\* ConstraintConstants
constraint_constants == [account_creation_fee |-> 1]

\* The checks of apply on the loaded account a, from the account precondition
\* to the nonce, with the local state they leave.
AccountChecks(ls, a, account_is_new, account_update, is_start_) ==
    LET u == account_update
        increments_nonce_and_constrains_its_old_value ==
            u.increment_nonce /\ u.nonce_precondition_constant
        depends_on_the_fee_payers_nonce_and_isnt_the_fee_payer ==
            u.use_full_commitment /\ ~is_start_
        does_not_use_a_signature == ~u.signature_verifies
        failed1 == AddSignedAmountFlagged(a.balance, u.balance_change).overflow
        creation == AddFlagged(ls.excess, 0 - constraint_constants.account_creation_fee)
        is_receiver == IsPos(u.balance_change)
        controller == IF is_receiver THEN a.permissions["receive"] ELSE a.permissions["send"]
        ls1 == AddChecks(ls,
                 << <<"AccountPreconditionUnsatisfied", u.account_precondition>>,
                    <<"ProtocolStatePreconditionUnsatisfied", u.protocol_state_precondition>>,
                    <<"FeePayerNonceMustIncrease", u.increment_nonce \/ ~is_start_>>,
                    <<"FeePayerMustBeSigned", u.signature_verifies \/ ~is_start_>>,
                    <<"ZkappCommandReplayCheckFailed",
                      increments_nonce_and_constrains_its_old_value
                         \/ depends_on_the_fee_payers_nonce_and_isnt_the_fee_payer
                         \/ does_not_use_a_signature>>,
                    <<"Overflow", failed1>>,
                    <<"AmountInsufficientToCreateAccount",
                      ~(account_is_new /\ creation.overflow)>> >>)
        ls2 == [ls1 EXCEPT !.excess = IF account_is_new THEN creation.value ELSE @]
    IN AddChecks(ls2,
         << <<"UpdateNotPermittedBalance",
              ControllerCheck(u.proof_verifies, u.signature_verifies, controller)
                 \/ u.balance_change = 0>>,
            AttrCheck(a, u, "app_state"),
            AttrCheck(a, u, "verification_key"),
            AttrCheck(a, u, "sequence_events"),
            AttrCheck(a, u, "zkapp_uri"),
            AttrCheck(a, u, "token_symbol"),
            AttrCheck(a, u, "delegate"),
            <<"UpdateNotPermittedNonce",
              ~u.increment_nonce
                 \/ ControllerCheck(u.proof_verifies, u.signature_verifies,
                                    a.permissions["increment_nonce"])>>,
            AttrCheck(a, u, "voting_for"),
            AttrCheck(a, u, "permissions") >>)

\* The end of apply: the local excess, the write into the local ledger, and
\* the update of the global state. Result [panic, global_state, local_state].
Settle(global_state0, ls, a, account_update, remaining, is_start_) ==
    LET local_delta == 0 - account_update.balance_change
        account_update_token_is_default == account_update.token_id = DefaultToken
        sum == AddFlagged(ls.excess, local_delta)
        overflowed == account_update_token_is_default /\ sum.overflow
        ls1 == AddCheck([ls EXCEPT !.excess = IF account_update_token_is_default
                                              THEN sum.value ELSE @],
                        "LocalExcessOverflow", ~overflowed)
        new_ledger == SetAccount(ls1.ledger, a)
        is_last_account_update == remaining.calls = <<>>
        valid_fee_excess == ~is_last_account_update \/ ls1.excess = 0
        ls2 == AddCheck([ls1 EXCEPT !.ledger = new_ledger],
                        "InvalidFeeExcess", valid_fee_excess)
        update_local_excess == is_start_ \/ is_last_account_update
        update_global_state0 == update_local_excess /\ ls2.success
        res == AddFlagged(global_state0.fee_excess, ls2.excess)
        global_excess_update_failed == update_global_state0 /\ res.overflow
        update_global_state == update_global_state0 /\ ~res.overflow
        global_state1 == [global_state0 EXCEPT
                            !.fee_excess = IF update_global_state THEN res.value ELSE @]
        ls3 == AddCheck([ls2 EXCEPT !.excess = IF update_local_excess THEN 0 ELSE @],
                        "GlobalExcessOverflow", ~global_excess_update_failed)
    IN IF ls.token_id # DefaultToken
       THEN [panic |-> "assertion failed: curr_is_default"]
       ELSE IF is_start_ /\ ~(account_update_token_is_default /\ IsPos(local_delta))
       THEN [panic |-> "assertion failed: !is_start_ || (account_update_token_is_default && local_delta.is_pos())"]
       ELSE IF is_start_ /\ ~ls3.success
       THEN [panic |-> "assert_with_failure_status_tbl"]
       ELSE [ panic |-> "none",
              global_state |-> SetLedger(update_global_state, global_state1, ls3.ledger),
              local_state |->
                 [ls3 EXCEPT
                    !.token_id = IF is_last_account_update THEN DefaultToken ELSE @,
                    !.ledger = IF is_last_account_update THEN ZkEmptyLedger ELSE @,
                    !.success = IF is_last_account_update THEN TRUE ELSE @,
                    !.account_update_index = IF is_last_account_update THEN 0 ELSE @ + 1] ]

\* The result of apply once the step has settled: r is the result of Settle,
\* a the account the step wrote. failed tells whether the step recorded a
\* failure.
ApplySettled(local_state0, a, account_update, r) ==
    IF r.panic # "none" THEN [panic |-> r.panic]
    ELSE [ panic |-> "none",
           global_state |-> r.global_state,
           local_state |-> r.local_state,
           account |-> a,
           account_update |-> account_update,
           failed |-> Failures(r.local_state.failure_status_tbl)
                         > Failures(local_state0.failure_status_tbl) ]

\* apply from the result next of get_next_account_update on: the account is
\* loaded, checked, updated and settled. ls0 is the local state with the
\* ledger the step works on, call_stack the stack handed to
\* get_next_account_update.
ApplyNext(is_start_, global_state0, local_state0, ls0, call_stack, next) ==
    IF next.panic # "none" THEN [panic |-> next.panic]
    ELSE
    LET account_update == next.account_update
        remaining == next.new_frame
        ls1 == AddCheck(ls0, "TokenOwnerNotCaller",
                        account_update.token_id = DefaultToken
                           \/ account_update.token_id = account_update.caller)
        acct == GetAccount(ls0.ledger,
                           <<account_update.public_key, account_update.token_id>>)
        ls2 == [ls1 EXCEPT !.token_id = IF is_start_ THEN DefaultToken ELSE @,
                           !.stack_frame = remaining,
                           !.call_stack = call_stack]
        ls4 == AccountChecks(AddNewFailureStatusBucket(ls2), acct.account, acct.is_new,
                             account_update, is_start_)
        a == UpdatedAccount(acct.account, account_update)
    IN IF account_update.proof_verifies /\ account_update.signature_verifies
       THEN [panic |-> "assertion failed: !(proof_verifies && signature_verifies)"]
       ELSE ApplySettled(local_state0, a, account_update,
                         Settle(global_state0, ls4, a, account_update, remaining, is_start_))

\* apply(constraint_constants, is_start, handler, (global_state, local_state)):
\* one step of a zkApp command. is_start is "Yes", "No" or "Compute";
\* zkapp_command is the forest of the start data.
\* Result [panic, global_state, local_state, account, failed]: account is the
\* account the step wrote, failed whether the step recorded a failure.
Apply(is_start, zkapp_command, global_state0, local_state0) ==
    LET is_start_0 == local_state0.stack_frame.calls = <<>>
        is_start_ == CASE is_start = "Yes" -> TRUE
                       [] is_start = "No" -> FALSE
                       [] is_start = "Compute" -> is_start_0
        ls0 == IF is_start_ THEN [local_state0 EXCEPT !.ledger = global_state0.ledger]
               ELSE local_state0
        from_start == is_start = "Yes" \/ (is_start = "Compute" /\ is_start_)
        to_pop == IF from_start
                  THEN [caller |-> DefaultToken, caller_caller |-> DefaultToken,
                        calls |-> zkapp_command]
                  ELSE ls0.stack_frame
        call_stack == IF from_start THEN <<>> ELSE ls0.call_stack
    IN IF is_start = "Yes" /\ ~is_start_0
       THEN [panic |-> "assertion failed: is_start_"]
       ELSE IF is_start = "Compute" /\ is_start_0
       THEN [panic |-> "assertion failed: is_start_ != true"]
       ELSE ApplyNext(is_start_, global_state0, local_state0, ls0, call_stack,
                      GetNextAccountUpdate(to_pop, call_stack))

\* ------------------------------------------------------------------ the ledger program
vars == <<db, masks, panicked, nops, limit, last_op, global_state, local_state, command>>

\* An operation as last_op records it: its name, the ledger it was called on,
\* its argument, the address it was given or returned (-1 when none) and the
\* tag of its result.
Op(name, l, arg, addr, tag) ==
    [op |-> name, ledger |-> l, arg |-> arg, addr |-> addr, tag |-> tag]

InitLedgers ==
    /\ db = DbEmpty
    /\ masks = [m \in Masks |-> MaskEmpty]
    /\ panicked = "none"
    /\ nops = 0
    /\ last_op = Op("new", Root, "", -1, "")

\* No zkApp command runs in the ledger program.
NoZkapp ==
    /\ global_state = [ledger |-> ZkEmptyLedger, fee_excess |-> 0]
    /\ local_state = LocalStateInit
    /\ command = CommandInit

Init == InitLedgers /\ NoZkapp /\ limit = MaxOps

InitDeep == InitLedgers /\ NoZkapp /\ limit = MaxDeepOps

Running == panicked = "none" /\ nops < limit

\* The program continues from world w, or has aborted: with w.panic, or, in a
\* build with overflow checks, at a subtraction that went below 0.
Continue(w) ==
    /\ nops' = nops + 1
    /\ UNCHANGED <<limit, global_state, local_state, command>>
    /\ \/ /\ w.panic = "none"
          /\ db' = w.db /\ masks' = w.masks /\ panicked' = "none"
       \/ /\ w.panic # "none"
          /\ panicked' = w.panic /\ UNCHANGED <<db, masks>>
       \/ /\ w.underflow
          /\ panicked' = "attempt to subtract with overflow" /\ UNCHANGED <<db, masks>>

\* BaseLedger::set on any ledger
Set(l, addr, account) ==
    /\ Running
    /\ Continue(SetImpl(World, l, addr, account, None))
    /\ last_op' = Op("set", l, account, addr, "")

\* BaseLedger::set_at_index on any ledger
SetAtIndex(l, index, account) ==
    /\ Running
    /\ Continue(SetImpl(World, l, index, account, None))
    /\ last_op' = Op("set_at_index", l, account, index, "")

\* The lists handed to set_batch: accounts of different ids at consecutive
\* addresses.
BatchAccounts ==
    <<MkAccount(1, 0, 0), MkAccount(2, 1, 0), MkAccount(2, 0, 0), MkAccount(1, 0, 1)>>
BatchLists ==
    { [k \in 1 .. n |-> [addr |-> start + k - 1, account |-> BatchAccounts[k]]] :
        n \in 1 .. MaxBatch, start \in Indices } \cap
    UNION { [1 .. n -> [addr : Indices, account : Accounts]] : n \in 1 .. MaxBatch }

\* BaseLedger::set_batch on any ledger
SetBatch(l, list) ==
    /\ Running
    /\ Continue(SetBatchImpl(World, l, list))
    /\ last_op' = Op("set_batch", l, list, -1, "")

\* BaseLedger::get_or_create_account on any ledger
GetOrCreate(l, account) ==
    /\ Running
    /\ LET r == GetOrCreateAccount(World, l, AccountIdOf(account), account)
       IN Continue(r.w) /\ last_op' = Op("get_or_create_account", l, account, r.addr, r.tag)

\* BaseLedger::remove_accounts on any ledger
Remove(l, ids) ==
    /\ Running
    /\ Continue(RemoveAccounts(World, l, ids))
    /\ last_op' = Op("remove_accounts", l, ids, -1, "")

\* MaskImpl::commit on an attached mask
DoCommit(m) ==
    /\ Running
    /\ \E order \in Orders({ i \in Indices : IsSome(masks[m].owning_account[i]) }) :
          Continue(Commit(World, m, order))
    /\ last_op' = Op("commit", m, MerkleRoot(World, m), -1, "")

\* Database::merkle_root on the root database
DoMerkleRoot ==
    /\ Running
    /\ Continue([World EXCEPT !.db = DbMerkleRoot(db)])
    /\ last_op' = Op("merkle_root", Root, "", -1, "")

Next ==
    \/ \E l \in Ledgers, addr \in Indices, account \in Accounts : Set(l, addr, account)
    \/ \E l \in Ledgers, index \in Indices, account \in Accounts : SetAtIndex(l, index, account)
    \/ \E l \in Ledgers, list \in BatchLists : SetBatch(l, list)
    \/ \E l \in Ledgers, account \in Accounts : GetOrCreate(l, account)
    \/ \E l \in Ledgers, ids \in (SUBSET Ids) \ {{}} : Remove(l, ids)
    \/ \E m \in Masks : DoCommit(m)
    \/ DoMerkleRoot

\* Short runs of the ledger program.
Spec == Init /\ [][Next]_vars

\* Long runs of the ledger program.
SpecDeep == InitDeep /\ [][Next]_vars

\* ------------------------------------------------------------------ the zkApp program
\* The driver of the zkApp step: it hands a command to apply with IsStart::Yes
\* and then calls apply again until the step that leaves no update.
\* Updates at the top level of a command, after its first.
MaxUpdates == 1
\* Steps of one run of the zkApp program.
MaxSteps == 3

KeepAll == [attr \in Attrs |-> None]

\* AccountUpdate: the fields the step reads. The results of
\* check_authorization and of the precondition checks come with the update.
Update(pk, tok, caller, balance_change, fee_payer, sig, proof, pre, set) ==
    [ public_key |-> pk, token_id |-> tok, caller |-> caller,
      balance_change |-> balance_change,
      increment_nonce |-> fee_payer, nonce_precondition_constant |-> fee_payer,
      use_full_commitment |-> ~fee_payer,
      signature_verifies |-> sig, proof_verifies |-> proof,
      account_precondition |-> pre, protocol_state_precondition |-> TRUE,
      set |-> set ]

\* The updates a command starts with: fee payers, signed and incrementing
\* their nonce, and one update that is neither.
FeePayers ==
    { Update(1, DefaultToken, DefaultToken, 0 - 1, TRUE, TRUE, FALSE, TRUE, KeepAll),
      Update(1, DefaultToken, DefaultToken, 0, TRUE, TRUE, FALSE, TRUE, KeepAll),
      Update(1, DefaultToken, DefaultToken, 0 - 1, FALSE, FALSE, FALSE, TRUE, KeepAll) }
\* The updates that follow: a signed receipt, a signed payment, an unsatisfied
\* account precondition, an app_state update authorized by a proof, a custom
\* token whose owner is not the caller, and a caller that is neither the
\* frame's caller nor its caller's caller.
OtherUpdates ==
    { Update(2, DefaultToken, DefaultToken, 1, FALSE, TRUE, FALSE, TRUE, KeepAll),
      Update(2, DefaultToken, DefaultToken, 0 - 1, FALSE, TRUE, FALSE, TRUE, KeepAll),
      Update(2, DefaultToken, DefaultToken, 0, FALSE, FALSE, FALSE, FALSE, KeepAll),
      Update(2, DefaultToken, DefaultToken, 1, FALSE, FALSE, TRUE, TRUE,
             [KeepAll EXCEPT !["app_state"] = Some(1)]),
      Update(2, 1, DefaultToken, 0, FALSE, FALSE, FALSE, TRUE, KeepAll),
      Update(2, DefaultToken, 3, 0, FALSE, FALSE, FALSE, TRUE, KeepAll) }
\* The updates called by a fee payer: their caller is the fee payer's token.
NestedUpdates ==
    { Update(2, DefaultToken, 1, 1, FALSE, FALSE, FALSE, TRUE, KeepAll),
      Update(2, 1, 1, 0, FALSE, FALSE, FALSE, TRUE, KeepAll) }

\* CallForest<AccountUpdate>: a sequence of trees [elt, calls].
Leaf(u) == [elt |-> u, calls |-> <<>>]
FirstTrees ==
    { Leaf(u) : u \in FeePayers } \cup
    { [elt |-> u, calls |-> <<Leaf(c)>>] : u \in FeePayers, c \in NestedUpdates }
OtherTrees == { Leaf(u) : u \in OtherUpdates }
\* ZkAppCommand::account_updates: a first update and up to MaxUpdates others.
Commands ==
    { <<first>> \o rest :
        first \in FirstTrees,
        rest \in UNION { [1 .. n -> OtherTrees] : n \in 0 .. MaxUpdates } }

\* The ledgers a command starts from.
StartBalances == {0, 1, MaxAmount}
StartLedgers ==
    { [id \in ZkIds |->
         IF id = <<1, DefaultToken>> /\ b1 # <<>>
         THEN Some([ZkNewAccount(id) EXCEPT !.balance = b1[1]])
         ELSE IF id = <<2, DefaultToken>> /\ b2 # <<>>
         THEN Some([ZkNewAccount(id) EXCEPT !.balance = b2[1]])
         ELSE None] :
      b1 \in {<<>>} \cup { <<b>> : b \in StartBalances },
      b2 \in {<<>>} \cup { <<b>> : b \in StartBalances } }

InitZkapp ==
    /\ InitLedgers
    /\ limit = MaxSteps
    /\ \E ledger \in StartLedgers : global_state = [ledger |-> ledger, fee_excess |-> 0]
    /\ local_state = LocalStateInit
    /\ command = CommandInit

\* One call of apply. A panic aborts the program and leaves the state as it
\* was.
ZkApply(is_start, zkapp_command) ==
    /\ Running
    /\ nops' = nops + 1
    /\ UNCHANGED <<db, masks, limit>>
    /\ LET r == Apply(is_start, zkapp_command, global_state, local_state)
       IN IF r.panic # "none"
          THEN /\ panicked' = r.panic
               /\ last_op' = Op("apply", is_start, "", -1, "panic")
               /\ UNCHANGED <<global_state, local_state, command>>
          ELSE /\ panicked' = "none"
               /\ global_state' = r.global_state
               /\ local_state' = r.local_state
               /\ last_op' = Op("apply", is_start, "", -1,
                                IF r.failed THEN "failed" ELSE "ok")
               /\ command' =
                    IF is_start = "Yes"
                    THEN [ before |-> global_state.ledger,
                           after_start |-> r.global_state.ledger,
                           writes |-> SetAccount(global_state.ledger, r.account),
                           failed |-> r.failed,
                           steps |-> 1,
                           done |-> r.local_state.stack_frame.calls = <<>>,
                           forest |-> zkapp_command,
                           processed |-> <<r.account_update>> ]
                    ELSE [ command EXCEPT
                             !.writes = SetAccount(@, r.account),
                             !.failed = @ \/ r.failed,
                             !.steps = @ + 1,
                             !.done = r.local_state.stack_frame.calls = <<>>,
                             !.processed = Append(@, r.account_update) ]

NextZkapp ==
    \/ \E zkapp_command \in Commands : ZkApply("Yes", zkapp_command)
    \/ ZkApply("No", <<>>)
    \/ ZkApply("Compute", <<>>)

\* Runs of the zkApp program.
SpecZkapp == InitZkapp /\ [][NextZkapp]_vars

\* ------------------------------------------------------------------ commit
CommitAssertion == "assertion failed: old_root_hash == parent.merkle_root()"

\* The overlay maps of mask m hold nothing.
OverlayEmpty(m) ==
    /\ \A i \in Indices : IsNone(masks[m].owning_account[i])
    /\ \A id \in Ids : IsNone(masks[m].id_to_addr[id])
    /\ \A t \in Tokens : IsNone(masks[m].token_to_account[t])

\* C1: when m.commit() is called on an attached mask m whose Merkle root was
\* r0, the commit completes (its root-equality assertion holds) and afterwards
\* the parent's Merkle root is r0 and the overlay maps of m are empty.
CommitPreservesRoot ==
    last_op.op = "commit" =>
        /\ panicked # CommitAssertion
        /\ panicked = "none" =>
              /\ MerkleRoot(World, ParentOf(last_op.ledger)) = last_op.arg
              /\ OverlayEmpty(last_op.ledger)

ShadowedIds(m) ==
    { AccountIdOf(Unwrap(m.owning_account[i])) :
        i \in { j \in Indices : IsSome(m.owning_account[j]) } }

\* Mask record m holds account a in its overlay, indexed under a's id.
HoldsShadow(m, a) ==
    /\ IsSome(m.id_to_addr[AccountIdOf(a)])
    /\ m.owning_account[Unwrap(m.id_to_addr[AccountIdOf(a)])] = Some(a)

\* Mask record m holds, under the id of a, an account that differs from a.
HoldsOther(m, a) ==
    /\ IsSome(m.id_to_addr[AccountIdOf(a)])
    /\ IsSome(m.owning_account[Unwrap(m.id_to_addr[AccountIdOf(a)])])
    /\ m.owning_account[Unwrap(m.id_to_addr[AccountIdOf(a)])] # Some(a)

\* A step in which the root, the parent of every mask, writes an account.
ParentWrites ==
    /\ last_op'.op \in {"set", "set_at_index"}
    /\ last_op'.ledger = Root

\* C3: after the parent writes account a with id i, the write has completed
\* and every attached child that held a shadow equal to a under i holds no
\* shadow for i any more, while a child that held a different account under i
\* keeps its own account unchanged.
ParentWritePrunesStep ==
    ParentWrites =>
        /\ panicked' = "none"
        /\ \A c \in Children(Root) :
              /\ HoldsShadow(masks[c], last_op'.arg) =>
                    /\ IsNone(masks'[c].id_to_addr[AccountIdOf(last_op'.arg)])
                    /\ AccountIdOf(last_op'.arg) \notin ShadowedIds(masks'[c])
              /\ HoldsOther(masks[c], last_op'.arg) => masks'[c] = masks[c]
ParentWritePrunes == [][ParentWritePrunesStep]_vars

\* ------------------------------------------------------------------ fall-through
\* C4: a read on an attached mask m answers from m's overlay when the overlay
\* holds an entry, and otherwise answers what the parent answers: for get,
\* location_of_account, index_of_account and token_owner alike.
OverlayFirst ==
    \A m \in Masks :
        /\ \A addr \in Indices :
              Get(World, m, addr) =
                 IF IsSome(masks[m].owning_account[addr])
                 THEN masks[m].owning_account[addr]
                 ELSE Get(World, ParentOf(m), addr)
        /\ \A id \in Ids :
              /\ LocationOfAccount(World, m, id) =
                    IF IsSome(masks[m].id_to_addr[id])
                    THEN masks[m].id_to_addr[id]
                    ELSE LocationOfAccount(World, ParentOf(m), id)
              /\ IndexOfAccount(World, m, id) =
                    IF IsSome(masks[m].id_to_addr[id])
                    THEN masks[m].id_to_addr[id]
                    ELSE IndexOfAccount(World, ParentOf(m), id)
        /\ \A t \in Tokens :
              TokenOwner(World, m, t) =
                 IF IsSome(masks[m].token_to_account[t])
                 THEN masks[m].token_to_account[t]
                 ELSE TokenOwner(World, ParentOf(m), t)

\* A mask whose overlay answers at one address where the parent holds another
\* account, and which falls through to the parent at another address.
OverlayFirstReached ==
    \E m \in Masks, a1, a2 \in Indices :
        /\ IsSome(masks[m].owning_account[a1])
        /\ IsSome(db.account[a1])
        /\ masks[m].owning_account[a1] # db.account[a1]
        /\ IsNone(masks[m].owning_account[a2])
        /\ IsSome(db.account[a2])
        /\ Get(World, m, a2) = db.account[a2]

\* ------------------------------------------------------------------ get_or_create_account
\* C5: whenever get_or_create_account(id, acc) has returned Added(addr), on the
\* root database or on a mask, then immediately afterwards get(addr) is
\* Some(acc) and location_of_account(id) is Some(addr).
AddedIsStored ==
    (last_op.op = "get_or_create_account" /\ last_op.tag = "Added") =>
        /\ panicked = "none"
        /\ last_op.addr \in Indices
        /\ Get(World, last_op.ledger, last_op.addr) = Some(last_op.arg)
        /\ LocationOfAccount(World, last_op.ledger, AccountIdOf(last_op.arg))
              = Some(last_op.addr)
        /\ last_op.ledger = Root =>
              /\ DbGet(db, last_op.addr) = Some(last_op.arg)
              /\ DbLocationOfAccount(db, AccountIdOf(last_op.arg)) = Some(last_op.addr)

\* get_or_create_account has just returned Added on a mask whose parent holds
\* accounts of its own.
AddedOnMaskReached ==
    /\ last_op.op = "get_or_create_account"
    /\ last_op.tag = "Added"
    /\ last_op.ledger \in Masks
    /\ last_op.addr > 0
    /\ IsSome(db.account[0])

\* A step that calls get_or_create_account again, on the same ledger and with
\* the same id, right after a call that returned Added.
CreatesAgain ==
    /\ last_op.op = "get_or_create_account"
    /\ last_op.tag = "Added"
    /\ last_op'.op = "get_or_create_account"
    /\ last_op'.ledger = last_op.ledger
    /\ AccountIdOf(last_op'.arg) = AccountIdOf(last_op.arg)

\* C6: get_or_create_account(id, acc1) for an unseen id followed by
\* get_or_create_account(id, acc2) returns Added(a) and then Existed(a); the
\* stored account stays acc1 and the second call changes nothing.
NoUpdateIfExistStep ==
    CreatesAgain =>
        /\ last_op'.tag = "Existed"
        /\ last_op'.addr = last_op.addr
        /\ panicked' = "none"
        /\ db' = db
        /\ masks' = masks
        /\ Get([World EXCEPT !.db = db', !.masks = masks'], last_op.ledger, last_op.addr)
              = Some(last_op.arg)
NoUpdateIfExist == [][NoUpdateIfExistStep]_vars

\* get_or_create_account has returned Existed for an account that differs from
\* the stored one, which is still stored.
ExistedKeepsFirstReached ==
    /\ last_op.op = "get_or_create_account"
    /\ last_op.tag = "Existed"
    /\ IsSome(Get(World, last_op.ledger, last_op.addr))
    /\ Get(World, last_op.ledger, last_op.addr) # Some(last_op.arg)
    /\ AccountIdOf(Unwrap(Get(World, last_op.ledger, last_op.addr)))
          = AccountIdOf(last_op.arg)

\* ------------------------------------------------------------------ the empty root
\* C7: a root database that holds no account has the Merkle root
\* empty_hash_at_depth(depth): when nothing was ever inserted, and again when
\* every inserted account has been removed.
EmptyRootRestored ==
    (\A i \in Indices : IsNone(DbGet(db, i))) =>
        DbMerkleRootValue(db) = EmptyHashAtDepth(Depth)

\* remove_accounts has just removed the last account of the root database.
AllRemovedReached ==
    /\ last_op.op = "remove_accounts"
    /\ last_op.ledger = Root
    /\ panicked = "none"
    /\ DbHasRoot(db)
    /\ \A i \in Indices : IsNone(DbGet(db, i))

\* ------------------------------------------------------------------ counters and index
\* C8: in every state of a ledger, root database or mask, num_accounts() is
\* last_filled().index + 1 when the ledger holds an account, and 0 otherwise.
NumAccountsIsLastFilled ==
    /\ DbNumAccounts(db) =
          IF \E i \in Indices : IsSome(DbGet(db, i))
          THEN (IF IsSome(DbLastFilled(db)) THEN Unwrap(DbLastFilled(db)) + 1 ELSE -1)
          ELSE 0
    /\ \A l \in Ledgers :
          NumAccounts(World, l) =
             IF \E i \in Indices : IsSome(Get(World, l, i))
             THEN (IF IsSome(LastFilled(World, l))
                   THEN Unwrap(LastFilled(World, l)) + 1 ELSE -1)
             ELSE 0

\* C9: in the root database each AccountId is held by at most one leaf and the
\* index agrees with the tree: get(addr) = Some(a) implies
\* location_of_account(a.id) = Some(addr), and location_of_account(id) =
\* Some(addr) implies that get(addr) holds an account with that id.
IndexAgreesWithTree ==
    /\ \A addr \in Indices :
          IsSome(DbGet(db, addr)) =>
             DbLocationOfAccount(db, AccountIdOf(Unwrap(DbGet(db, addr)))) = Some(addr)
    /\ \A id \in Ids :
          IsSome(DbLocationOfAccount(db, id)) =>
             /\ IsSome(DbGet(db, Unwrap(DbLocationOfAccount(db, id))))
             /\ AccountIdOf(Unwrap(DbGet(db, Unwrap(DbLocationOfAccount(db, id))))) = id

\* A step that calls get_or_create_account with an unseen id on a ledger whose
\* last_filled() is the last leaf.
CreatesInFullLedger ==
    /\ last_op'.op = "get_or_create_account"
    /\ IsNone(LocationOfAccount(World, last_op'.ledger, AccountIdOf(last_op'.arg)))
    /\ LastFilled(World, last_op'.ledger) = Some(NumLeaves - 1)

\* C10: get_or_create_account with an unseen id on a ledger whose last_filled()
\* is the last leaf returns Err(OutOfLeaves) as a value, on the root database
\* and on a mask alike, and leaves the ledger unchanged.
OutOfLeavesIsReturnedStep ==
    CreatesInFullLedger =>
        /\ last_op'.tag = "OutOfLeaves"
        /\ panicked' = "none"
        /\ db' = db
        /\ masks' = masks
OutOfLeavesIsReturned == [][OutOfLeavesIsReturnedStep]_vars

\* ------------------------------------------------------------------ timing
\* Slot is a u32; Amount, Balance and Fee are u64 (AmountBits wide here). The
\* largest value of each width stands for u32::MAX and u64::MAX.
SlotBits == 2
MaxSlot == 2 ^ SlotBits - 1
Slots == 0 .. MaxSlot
Amounts == 0 .. MaxAmount

\* Amount::checked_add / Fee::checked_add / Balance::add_amount
CheckedAdd(x, y) == IF x + y <= MaxAmount THEN Some(x + y) ELSE None
\* Amount::checked_sub / Balance::sub_amount
CheckedSub(x, y) == IF x >= y THEN Some(x - y) ELSE None

\* Timing::Untimed
Untimed == [kind |-> "Untimed"]
\* Timing::Timed { .. }
Timed(initial_minimum_balance, cliff_time, cliff_amount, vesting_period, vesting_increment) ==
    [ kind |-> "Timed",
      initial_minimum_balance |-> initial_minimum_balance,
      cliff_time |-> cliff_time,
      cliff_amount |-> cliff_amount,
      vesting_period |-> vesting_period,
      vesting_increment |-> vesting_increment ]

\* account_min_balance_at_slot as it would be if the vesting decrement were
\* the wrapped product instead of the saturated one.
AccountMinBalanceAtSlotWrapping(global_slot, cliff_time, cliff_amount, vesting_period, vesting_increment, initial_minimum_balance) ==
    IF global_slot < cliff_time THEN initial_minimum_balance
    ELSE IF vesting_period = 0 THEN 0
    ELSE IF IsNone(CheckedSub(initial_minimum_balance, cliff_amount)) THEN 0
    ELSE LET min_balance_past_cliff == initial_minimum_balance - cliff_amount
             num_periods == (global_slot - cliff_time) \div vesting_period
             vesting_decrement == (num_periods * vesting_increment) % (MaxAmount + 1)
         IN IF IsNone(CheckedSub(min_balance_past_cliff, vesting_decrement)) THEN 0
            ELSE min_balance_past_cliff - vesting_decrement

\* account_min_balance_at_slot
AccountMinBalanceAtSlot(global_slot, cliff_time, cliff_amount, vesting_period, vesting_increment, initial_minimum_balance) ==
    IF global_slot < cliff_time THEN initial_minimum_balance
    ELSE IF vesting_period = 0 THEN 0
    ELSE IF IsNone(CheckedSub(initial_minimum_balance, cliff_amount)) THEN 0
    ELSE LET min_balance_past_cliff == initial_minimum_balance - cliff_amount
             num_periods == (global_slot - cliff_time) \div vesting_period
             \* u64::MAX.checked_div(num_periods) is None when num_periods = 0
             vesting_decrement ==
                 IF num_periods # 0 /\ (MaxAmount \div num_periods) < vesting_increment
                 THEN MaxAmount
                 ELSE num_periods * vesting_increment
         IN IF IsNone(CheckedSub(min_balance_past_cliff, vesting_decrement)) THEN 0
            ELSE min_balance_past_cliff - vesting_decrement

\* The minimum balance of a timed account at a slot.
CurrMinBalance(timing, txn_global_slot) ==
    AccountMinBalanceAtSlot(txn_global_slot, timing.cliff_time, timing.cliff_amount,
                            timing.vesting_period, timing.vesting_increment,
                            timing.initial_minimum_balance)

\* validate_timing_with_min_balance_impl. Result: (possibly_error, timing,
\* min_balance), possibly_error being a TimingValidation and its flag.
ValidateTimingWithMinBalanceImpl(account, txn_amount, txn_global_slot) ==
    IF account.timing.kind = "Untimed"
    THEN [ possibly_error |->
               <<"InsufficientBalance", IsNone(CheckedSub(account.balance, txn_amount))>>,
           timing |-> Untimed,
           min_balance |-> 0 ]
    ELSE LET proposed_new_balance == CheckedSub(account.balance, txn_amount)
             invalid_balance == IsNone(proposed_new_balance)
             curr_min_balance ==
                 IF invalid_balance THEN account.timing.initial_minimum_balance
                 ELSE CurrMinBalance(account.timing, txn_global_slot)
             invalid_timing ==
                 /\ ~invalid_balance
                 /\ Unwrap(proposed_new_balance) < curr_min_balance
             possibly_error ==
                 IF invalid_balance THEN <<"InsufficientBalance", invalid_balance>>
                 ELSE <<"InvalidTiming", invalid_timing>>
         IN IF curr_min_balance > 0
            THEN [ possibly_error |-> possibly_error,
                   timing |-> account.timing,
                   min_balance |-> curr_min_balance ]
            ELSE [ possibly_error |-> possibly_error,
                   timing |-> Untimed,
                   min_balance |-> 0 ]

\* The match of validate_timing_with_min_balance on the result of the impl.
TimingResult(r) ==
    CASE r.possibly_error = <<"InsufficientBalance", TRUE>> ->
            [ tag |-> "Err", err |-> "the balance is insufficient",
              timing |-> r.timing, min_balance |-> r.min_balance ]
      [] r.possibly_error = <<"InvalidTiming", TRUE>> ->
            [ tag |-> "Err", err |-> "balance below the calculated minimum balance",
              timing |-> r.timing, min_balance |-> r.min_balance ]
      [] r.possibly_error = <<"InsufficientBalance", FALSE>> ->
            [ tag |-> "panic", err |-> "Broken invariant in validate_timing_with_min_balance'",
              timing |-> r.timing, min_balance |-> r.min_balance ]
      [] r.possibly_error = <<"InvalidTiming", FALSE>> ->
            [ tag |-> "Ok", err |-> "",
              timing |-> r.timing, min_balance |-> r.min_balance ]

\* validate_timing_with_min_balance. Result [tag, err, timing, min_balance]
\* with tag "Ok", "Err" or "panic".
ValidateTimingWithMinBalance(account, txn_amount, txn_global_slot) ==
    TimingResult(ValidateTimingWithMinBalanceImpl(account, txn_amount, txn_global_slot))

\* validate_timing
ValidateTiming(account, txn_amount, txn_global_slot) ==
    ValidateTimingWithMinBalance(account, txn_amount, txn_global_slot)

\* ------------------------------------------------------------------ fee transfers
\* An account as the transaction logic reads it.
TxAccount(pk, tok, bal, receive, timing) ==
    [ public_key |-> pk, token_id |-> tok, balance |-> bal, nonce |-> 0,
      permissions |-> [UserDefault EXCEPT !["receive"] = receive],
      timing |-> timing ]

\* Account::initialize(account_id)
AccountInitialize(account_id) == TxAccount(account_id[1], account_id[2], 0, "None", Untimed)

\* Account::has_permission_to(to): the check of the permission with no
\* authorization given.
HasPermissionTo(account, to) == CheckPermission(account.permissions[to], "NoneGiven")

\* FeeTransferInner { receiver_pk, fee, fee_token }
FeeTransferInner(receiver_pk, fee, fee_token) ==
    [receiver_pk |-> receiver_pk, fee |-> fee, fee_token |-> fee_token]
\* FeeTransferInner::receiver
Receiver(single) == <<single.receiver_pk, single.fee_token>>
\* FeeTransfer::fee_tokens; a FeeTransfer (OneOrTwo) is a sequence of one or
\* two singles.
FeeTokens(fee_transfer) == { fee_transfer[i].fee_token : i \in DOMAIN fee_transfer }

\* Result<T, String>
Ok(v) == [tag |-> "Ok", err |-> "", value |-> v]
Err(e) == [tag |-> "Err", err |-> e, value |-> 0]

\* sub_account_creation_fee
SubAccountCreationFee(action, amount) ==
    IF action = "Added"
    THEN IF IsSome(CheckedSub(amount, constraint_constants.account_creation_fee))
         THEN Ok(amount - constraint_constants.account_creation_fee)
         ELSE Err("Error subtracting account creation fee")
    ELSE Ok(amount)

\* add_amount
AddAmount(balance, amount) ==
    IF IsSome(CheckedAdd(balance, amount)) THEN Ok(balance + amount) ELSE Err("overflow")

\* The modify_balance closure of apply_fee_transfer.
ModifyBalance(action, balance, fee) ==
    IF SubAccountCreationFee(action, fee).tag = "Err" THEN SubAccountCreationFee(action, fee)
    ELSE AddAmount(balance, SubAccountCreationFee(action, fee).value)

\* update_timing_when_no_deduction, the modify_timing closure of
\* apply_fee_transfer.
UpdateTimingWhenNoDeduction(txn_global_slot, account) ==
    ValidateTiming(account, 0, txn_global_slot)

\* has_permission_to_receive
HasPermissionToReceive(w, l, receiver_account_id) ==
    LET init_account == AccountInitialize(receiver_account_id)
        location == LocationOfAccount(w, l, receiver_account_id)
    IN IF IsNone(location)
       THEN [ panic |-> "none", account |-> init_account, action |-> "Added",
              can_receive |-> HasPermissionTo(init_account, "receive") ]
       ELSE IF IsNone(Get(w, l, Unwrap(location)))
       THEN [ panic |-> "Ledger location with no account", account |-> init_account,
              action |-> "Existed", can_receive |-> FALSE ]
       ELSE [ panic |-> "none", account |-> Unwrap(Get(w, l, Unwrap(location))),
              action |-> "Existed",
              can_receive |-> HasPermissionTo(Unwrap(Get(w, l, Unwrap(location))), "receive") ]

\* What process_fee_transfer has so far: the world, whether it goes on
\* ("Ok"), returns Err or panics, and the new accounts, failures and burned
\* tokens.
FeePart(w, new_accounts, failures, burned_tokens) ==
    [ w |-> w, tag |-> "Ok", err |-> "", new_accounts |-> new_accounts,
      failures |-> failures, burned_tokens |-> burned_tokens ]
FeeErr(w, err) ==
    [ w |-> w, tag |-> "Err", err |-> err, new_accounts |-> <<>>,
      failures |-> <<>>, burned_tokens |-> 0 ]
FeePanic(w, msg) ==
    [ w |-> [w EXCEPT !.panic = msg], tag |-> "panic", err |-> msg, new_accounts |-> <<>>,
      failures |-> <<>>, burned_tokens |-> 0 ]

\* get_new_accounts
GetNewAccounts(action, data) == IF action = "Added" THEN <<data>> ELSE <<>>

\* The end of a can_receive branch: the account that get_or_create returned
\* at addr is given its balance, and its timing when one is handed over, and
\* is written with ledger.set.
CreditWrite(g, l, account_id, action, balance, timing) ==
    IF IsNone(Get(g.w, l, g.addr))
    THEN FeePanic(g.w, "get_or_create: Account was not found in the ledger after creation")
    ELSE FeePart(SetImpl(g.w, l, g.addr,
                         [Unwrap(Get(g.w, l, g.addr)) EXCEPT
                             !.balance = balance,
                             !.timing = IF IsSome(timing) THEN Unwrap(timing) ELSE @],
                         None),
                 GetNewAccounts(action, account_id), <<>>, 0)

\* get_or_create, then the write of the can_receive branch.
CreditGot(g, l, account_id, action, balance, timing) ==
    IF g.tag = "panic" THEN FeePanic(g.w, g.w.panic)
    ELSE IF g.tag = "OutOfLeaves" THEN FeeErr(g.w, "OutOfLeaves")
    ELSE CreditWrite(g, l, account_id, action, balance, timing)

\* A can_receive branch of process_fee_transfer.
CreditReceiver(w, l, account_id, action, balance, timing) ==
    CreditGot(GetOrCreateAccount(w, l, account_id, AccountInitialize(account_id)),
              l, account_id, action, balance, timing)

\* The failures a finished arm returns.
WithFailures(part, failures) ==
    IF part.tag = "Ok" THEN [part EXCEPT !.failures = failures] ELSE part

\* The One arm of process_fee_transfer, and the Two arm when both singles
\* name the same receiver, after has_permission_to_receive (p), modify_timing
\* and modify_balance.
ProcessSingleChecked(w, l, account_id, p, timing, balance, fee, ok_failures, failed_failures) ==
    IF timing.tag = "panic" THEN FeePanic(w, timing.err)
    ELSE IF timing.tag = "Err" THEN FeeErr(w, timing.err)
    ELSE IF balance.tag = "Err" THEN FeeErr(w, balance.err)
    ELSE IF p.can_receive
    THEN WithFailures(CreditReceiver(w, l, account_id, p.action, balance.value,
                                     Some(timing.timing)),
                      ok_failures)
    ELSE FeePart(w, <<>>, failed_failures, fee)

ProcessSingle(w, l, account_id, p, fee, txn_global_slot, ok_failures, failed_failures) ==
    ProcessSingleChecked(w, l, account_id, p,
                         UpdateTimingWhenNoDeduction(txn_global_slot, p.account),
                         ModifyBalance(p.action, p.account.balance, fee),
                         fee, ok_failures, failed_failures)

\* The receiver of one of two singles: credited when it can receive, else a
\* failure and its fee burned.
ReceiverPart(w, l, account_id, p, balance, timing, fee) ==
    IF p.can_receive THEN CreditReceiver(w, l, account_id, p.action, balance, timing)
    ELSE FeePart(w, <<>>, <<"Update_not_permitted_balance">>, fee)

\* The end of the Two arm: the two parts put together.
ProcessTwoDone(first, second) ==
    IF second.tag # "Ok" THEN second
    ELSE IF IsNone(CheckedAdd(first.burned_tokens, second.burned_tokens))
    THEN FeeErr(second.w, "burned tokens overflow")
    ELSE FeePart(second.w, first.new_accounts \o second.new_accounts,
                 <<first.failures, second.failures>>,
                 first.burned_tokens + second.burned_tokens)

\* The second receiver of the Two arm, after the first.
ProcessTwoSecond(l, account_id2, p2, balance2, timing2, fee2, first) ==
    IF first.tag # "Ok" THEN first
    ELSE ProcessTwoDone(first,
                        ReceiverPart(first.w, l, account_id2, p2, balance2.value,
                                     Some(timing2.timing), fee2))

\* The Two arm as it would be if the first receiver were credited before the
\* timing and the balance of the second are computed.
ProcessTwoCheckedLate(w, l, account_id1, account_id2, p1, p2, balance1, timing2, balance2, fee1, fee2) ==
    IF balance1.tag = "Err" THEN FeeErr(w, balance1.err)
    ELSE LET first == ReceiverPart(w, l, account_id1, p1, balance1.value, None, fee1)
         IN IF first.tag # "Ok" THEN first
            ELSE IF timing2.tag = "panic" THEN FeePanic(first.w, timing2.err)
            ELSE IF timing2.tag = "Err" THEN FeeErr(first.w, timing2.err)
            ELSE IF balance2.tag = "Err" THEN FeeErr(first.w, balance2.err)
            ELSE ProcessTwoSecond(l, account_id2, p2, balance2, timing2, fee2, first)

\* The Two arm of process_fee_transfer for two different receivers, after
\* has_permission_to_receive (p1, p2), modify_balance and modify_timing. The
\* timing of the first receiver is neither checked nor written.
ProcessTwoChecked(w, l, account_id1, account_id2, p1, p2, balance1, timing2, balance2, fee1, fee2) ==
    IF balance1.tag = "Err" THEN FeeErr(w, balance1.err)
    ELSE IF timing2.tag = "panic" THEN FeePanic(w, timing2.err)
    ELSE IF timing2.tag = "Err" THEN FeeErr(w, timing2.err)
    ELSE IF balance2.tag = "Err" THEN FeeErr(w, balance2.err)
    ELSE ProcessTwoSecond(l, account_id2, p2, balance2, timing2, fee2,
                          ReceiverPart(w, l, account_id1, p1, balance1.value, None, fee1))

ProcessTwoDistinct(w, l, fee_transfer1, fee_transfer2, p1, p2, txn_global_slot) ==
    IF p2.panic # "none" THEN FeePanic(w, p2.panic)
    ELSE ProcessTwoChecked(w, l, Receiver(fee_transfer1), Receiver(fee_transfer2), p1, p2,
                           ModifyBalance(p1.action, p1.account.balance, fee_transfer1.fee),
                           UpdateTimingWhenNoDeduction(txn_global_slot, p2.account),
                           ModifyBalance(p2.action, p2.account.balance, fee_transfer2.fee),
                           fee_transfer1.fee, fee_transfer2.fee)

\* The Two arm of process_fee_transfer, after has_permission_to_receive of
\* the first receiver (p1).
ProcessTwo(w, l, fee_transfer1, fee_transfer2, p1, txn_global_slot) ==
    IF p1.panic # "none" THEN FeePanic(w, p1.panic)
    ELSE IF Receiver(fee_transfer1) = Receiver(fee_transfer2)
    THEN IF IsNone(CheckedAdd(fee_transfer1.fee, fee_transfer2.fee))
         THEN FeeErr(w, "Overflow")
         ELSE ProcessSingle(w, l, Receiver(fee_transfer1), p1,
                            fee_transfer1.fee + fee_transfer2.fee, txn_global_slot,
                            <<<<>>, <<>>>>,
                            << <<"Update_not_permitted_balance">>,
                               <<"Update_not_permitted_balance">> >>)
    ELSE ProcessTwoDistinct(w, l, fee_transfer1, fee_transfer2, p1,
                            HasPermissionToReceive(w, l, Receiver(fee_transfer2)),
                            txn_global_slot)

\* The One arm of process_fee_transfer, after has_permission_to_receive (p).
ProcessOne(w, l, single, p, txn_global_slot) ==
    IF p.panic # "none" THEN FeePanic(w, p.panic)
    ELSE ProcessSingle(w, l, Receiver(single), p, single.fee, txn_global_slot,
                       <<>>, << <<"Update_not_permitted_balance">> >>)

\* process_fee_transfer as it would be without the check of the fee tokens.
ProcessFeeTransferAnyToken(w, l, fee_transfer, txn_global_slot) ==
    IF Len(fee_transfer) = 1
    THEN ProcessOne(w, l, fee_transfer[1],
                    HasPermissionToReceive(w, l, Receiver(fee_transfer[1])), txn_global_slot)
    ELSE ProcessTwo(w, l, fee_transfer[1], fee_transfer[2],
                    HasPermissionToReceive(w, l, Receiver(fee_transfer[1])), txn_global_slot)

\* process_fee_transfer with the closures of apply_fee_transfer. Result
\* [w, tag, err, new_accounts, failures, burned_tokens].
ProcessFeeTransfer(w, l, fee_transfer, txn_global_slot) ==
    IF \E t \in FeeTokens(fee_transfer) : t # DefaultToken
    THEN FeeErr(w, "Cannot pay fees in non-default tokens.")
    ELSE IF Len(fee_transfer) = 1
    THEN ProcessOne(w, l, fee_transfer[1],
                    HasPermissionToReceive(w, l, Receiver(fee_transfer[1])), txn_global_slot)
    ELSE ProcessTwo(w, l, fee_transfer[1], fee_transfer[2],
                    HasPermissionToReceive(w, l, Receiver(fee_transfer[1])), txn_global_slot)

\* The status apply_fee_transfer gives the failures.
FeeStatus(failures) ==
    IF \A i \in DOMAIN failures : failures[i] = <<>> THEN "Applied" ELSE "Failed"

\* apply_fee_transfer, after process_fee_transfer. Result: the world and the
\* Result<FeeTransferApplied, String>.
FeeTransferApplied(r) ==
    [ w |-> r.w, tag |-> r.tag, err |-> r.err,
      status |-> IF r.tag = "Ok" THEN FeeStatus(r.failures) ELSE "",
      failures |-> r.failures,
      new_accounts |-> r.new_accounts,
      burned_tokens |-> r.burned_tokens ]

\* apply_fee_transfer
ApplyFeeTransfer(w, l, fee_transfer, txn_global_slot) ==
    FeeTransferApplied(ProcessFeeTransfer(w, l, fee_transfer, txn_global_slot))

\* apply_transaction on the root database. The arms of signed commands, zkApp
\* commands and coinbases are todo!(), which panics.
ApplyTransaction(w, transaction, txn_global_slot) ==
    IF transaction.kind = "FeeTransfer"
    THEN ApplyFeeTransfer([w EXCEPT !.db = DbMerkleRoot(w.db)], Root,
                          transaction.data, txn_global_slot)
    ELSE FeeTransferApplied(FeePanic([w EXCEPT !.db = DbMerkleRoot(w.db)],
                                     "not yet implemented"))

\* ------------------------------------------------------------------ the transaction program
\* The largest fee of a transaction and the number of transactions of a run.
MaxFee == 2
MaxTxOps == 1

\* The fee transfers handed to apply_transaction: one or two singles.
FeeSingles == { FeeTransferInner(id[1], fee, id[2]) : id \in Ids, fee \in 0 .. MaxFee }
FeeTransfers ==
    { <<s>> : s \in FeeSingles } \cup { <<s1, s2>> : s1 \in FeeSingles, s2 \in FeeSingles }

\* The signed commands handed to apply_transaction: the fields of the payload
\* that pay_fee reads, and the signer.
SignedCommands ==
    [ fee_payer_pk : PublicKeys, signer : PublicKeys, fee : {0, MaxFee},
      fee_token : {DefaultToken}, nonce : {0, 1}, valid_until : {0, MaxSlot} ]

\* The slots of the protocol state view.
TxSlots == {0, MaxSlot}

\* The accounts a ledger holds for a public key before the transaction.
StartTiming == Timed(1, 1, 1, 1, 1)
StartAccounts(pk) ==
    { TxAccount(pk, DefaultToken, 0, "None", Untimed),
      TxAccount(pk, DefaultToken, 1, "None", StartTiming),
      TxAccount(pk, DefaultToken, 1, "Impossible", StartTiming),
      TxAccount(pk, DefaultToken, MaxAmount, "None", StartTiming) }

\* The database after get_or_create_account of the accounts given.
CreateIn(d, o) ==
    IF IsNone(o) THEN d ELSE DbCreateAccount(d, AccountIdOf(Unwrap(o)), Unwrap(o)).db
TxStartLedgers ==
    { CreateIn(CreateIn(DbEmpty, o1), o2) :
        o1 \in {None} \cup { Some(a) : a \in StartAccounts(1) },
        o2 \in {None} \cup { Some(a) : a \in StartAccounts(2) } }

InitTx ==
    /\ db \in TxStartLedgers
    /\ masks = [m \in Masks |-> MaskEmpty]
    /\ panicked = "none"
    /\ nops = 0
    /\ last_op = Op("new", Root, "", -1, "")
    /\ NoZkapp
    /\ limit = MaxTxOps

\* What last_op keeps of a call of apply_transaction: the transaction, the
\* slot and the Result returned.
Applied(kind, data, txn_global_slot, r) ==
    [ kind |-> kind, data |-> data, slot |-> txn_global_slot, err |-> r.err,
      status |-> r.status, failures |-> r.failures, new_accounts |-> r.new_accounts,
      burned_tokens |-> r.burned_tokens ]

\* apply_transaction(constraint_constants, txn_state_view, ledger, transaction)
\* on the root database
DoApplyTransaction(kind, data, txn_global_slot) ==
    /\ Running
    /\ LET r == ApplyTransaction(World, [kind |-> kind, data |-> data], txn_global_slot)
       IN /\ Continue(r.w)
          /\ last_op' = Op("apply_transaction", Root,
                           Applied(kind, data, txn_global_slot, r), -1, r.tag)

NextTx ==
    \/ \E fee_transfer \in FeeTransfers, slot \in TxSlots :
          DoApplyTransaction("FeeTransfer", fee_transfer, slot)
    \/ \E cmd \in SignedCommands, slot \in TxSlots :
          DoApplyTransaction("SignedCommand", cmd, slot)
    \/ \E slot \in TxSlots : DoApplyTransaction("ZkAppCommand", <<>>, slot)
    \/ \E slot \in TxSlots : DoApplyTransaction("Coinbase", <<>>, slot)

\* Runs of the transaction program.
SpecTx == InitTx /\ [][NextTx]_vars

\* ------------------------------------------------------------------ claims on transactions
\* The receiver account of an id in a database, the empty account of the id
\* when there is none.
StoredOrInit(d, id) ==
    IF IsSome(DbLocationOfAccount(d, id))
    THEN Unwrap(DbGet(d, Unwrap(DbLocationOfAccount(d, id))))
    ELSE AccountInitialize(id)
IsNewIn(d, id) == IsNone(DbLocationOfAccount(d, id))
CanReceiveIn(d, id) == HasPermissionTo(StoredOrInit(d, id), "receive")
\* What the transfer of fee to id credits, burns as creation fee, and burns
\* as a fee that could not be received.
CreationFeeOf(d, id) ==
    IF IsNewIn(d, id) /\ CanReceiveIn(d, id)
    THEN constraint_constants.account_creation_fee ELSE 0
CreditOf(d, id, fee) == IF CanReceiveIn(d, id) THEN fee - CreationFeeOf(d, id) ELSE 0
BurnOf(d, id, fee) == IF CanReceiveIn(d, id) THEN CreationFeeOf(d, id) ELSE fee

\* A step that applies a fee transfer to two different receivers and returns
\* Ok.
TwoReceiversApplied ==
    /\ last_op'.op = "apply_transaction"
    /\ last_op'.tag = "Ok"
    /\ last_op'.arg.kind = "FeeTransfer"
    /\ Len(last_op'.arg.data) = 2
    /\ Receiver(last_op'.arg.data[1]) # Receiver(last_op'.arg.data[2])

\* C11: a fee transfer to two different receivers that is not rejected
\* credits each receiver that may receive with its fee, less the account
\* creation fee when the receiver is new; burned_tokens is the creation fees
\* charged plus the fee of every receiver that may not receive; the balance
\* increases and burned_tokens add up to the two fees.
FeeTransferConservesStep ==
    TwoReceiversApplied =>
        LET single == last_op'.arg.data
            id1 == Receiver(single[1])
            id2 == Receiver(single[2])
        IN /\ StoredOrInit(db', id1).balance =
                 StoredOrInit(db, id1).balance + CreditOf(db, id1, single[1].fee)
           /\ StoredOrInit(db', id2).balance =
                 StoredOrInit(db, id2).balance + CreditOf(db, id2, single[2].fee)
           /\ last_op'.arg.burned_tokens =
                 BurnOf(db, id1, single[1].fee) + BurnOf(db, id2, single[2].fee)
           /\ (StoredOrInit(db', id1).balance - StoredOrInit(db, id1).balance)
                 + (StoredOrInit(db', id2).balance - StoredOrInit(db, id2).balance)
                 + last_op'.arg.burned_tokens
              = single[1].fee + single[2].fee
FeeTransferConserves == [][FeeTransferConservesStep]_vars

\* A step that applies a fee transfer with a fee token other than the default
\* token.
NonDefaultFeeToken ==
    /\ last_op'.op = "apply_transaction"
    /\ last_op'.arg.kind = "FeeTransfer"
    /\ \E t \in FeeTokens(last_op'.arg.data) : t # DefaultToken

\* C12: a fee transfer one of whose fee tokens is not the default token is
\* rejected with Err("Cannot pay fees in non-default tokens.") and no account
\* of the ledger is written: the database is the one before the call, with
\* its Merkle root memoized.
NonDefaultTokenRejectedStep ==
    NonDefaultFeeToken =>
        /\ last_op'.tag = "Err"
        /\ last_op'.arg.err = "Cannot pay fees in non-default tokens."
        /\ panicked' = "none"
        /\ db' = DbMerkleRoot(db)
        /\ masks' = masks
NonDefaultTokenRejected == [][NonDefaultTokenRejectedStep]_vars

\* A fee transfer of two singles was rejected for the token of the second,
\* after a first single that pays a fee in the default token.
NonDefaultTokenRejectedReached ==
    /\ last_op.op = "apply_transaction"
    /\ last_op.arg.kind = "FeeTransfer"
    /\ Len(last_op.arg.data) = 2
    /\ last_op.arg.data[1].fee_token = DefaultToken
    /\ last_op.arg.data[1].fee = MaxFee
    /\ last_op.arg.data[2].fee_token # DefaultToken
    /\ last_op.tag = "Err"
    /\ DbNumAccounts(db) > 0

\* The envelope of a signed command is in error: the signer is not the fee
\* payer, the fee payer has no account, its balance does not cover the fee,
\* its nonce is not the command's, or valid_until has passed.
EnvelopeError(d, cmd, slot) ==
    \/ cmd.signer # cmd.fee_payer_pk
    \/ IsNewIn(d, <<cmd.fee_payer_pk, cmd.fee_token>>)
    \/ StoredOrInit(d, <<cmd.fee_payer_pk, cmd.fee_token>>).balance < cmd.fee
    \/ StoredOrInit(d, <<cmd.fee_payer_pk, cmd.fee_token>>).nonce # cmd.nonce
    \/ slot > cmd.valid_until

\* C13: apply_transaction on a signed command whose envelope is in error (a
\* nonce other than the account's, a signer that is not the fee payer, a fee
\* payer without account, a balance below the fee, an expired valid_until)
\* returns Err as a value and leaves the ledger as it was.
EnvelopeErrorIsReturnedStep ==
    ( /\ last_op'.op = "apply_transaction"
      /\ last_op'.arg.kind = "SignedCommand"
      /\ EnvelopeError(db, last_op'.arg.data, last_op'.arg.slot) ) =>
        /\ last_op'.tag = "Err"
        /\ panicked' = "none"
        /\ [db' EXCEPT !.root_hash = db.root_hash] = db
        /\ masks' = masks
EnvelopeErrorIsReturned == [][EnvelopeErrorIsReturnedStep]_vars

\* ------------------------------------------------------------------ claims on the order of updates
\* The account updates of a call forest in pre-order: each update, then the
\* updates it calls, then the updates that follow it.
RECURSIVE PreOrder(_)
PreOrder(forest) ==
    IF forest = <<>> THEN <<>>
    ELSE <<Head(forest).elt>> \o PreOrder(Head(forest).calls) \o PreOrder(Tail(forest))

IsPrefix(p, s) == Len(p) <= Len(s) /\ SubSeq(s, 1, Len(p)) = p

\* C14: across the apply steps of one zkApp command, started from its
\* top-level forest with an empty call stack, the account updates processed
\* are the updates of the forest in pre-order, each once, and a step is
\* treated as the last exactly when it has processed the final update.
AllUpdatesInPreOrder ==
    command.steps > 0 =>
        /\ IsPrefix(command.processed, PreOrder(command.forest))
        /\ command.done <=> command.processed = PreOrder(command.forest)

\* ------------------------------------------------------------------ fee excess
\* Signed<Fee>::add: the sum, None when its magnitude overflows.
SignedAdd(x, y) ==
    IF x + y > MaxAmount \/ x + y < 0 - MaxAmount THEN None ELSE Some(x + y)

\* FeeExcess { fee_token_l, fee_excess_l, fee_token_r, fee_excess_r }
FeeExcess(fee_token_l, fee_excess_l, fee_token_r, fee_excess_r) ==
    [ fee_token_l |-> fee_token_l, fee_excess_l |-> fee_excess_l,
      fee_token_r |-> fee_token_r, fee_excess_r |-> fee_excess_r ]

\* The end of rebalance: the default token for an excess of zero.
RebalanceTokens(fee_token_l, fee_excess_l, fee_token_r, fee_excess_r) ==
    Ok(FeeExcess(IF fee_excess_l = 0 THEN DefaultToken ELSE fee_token_l, fee_excess_l,
                 IF fee_excess_r = 0 THEN DefaultToken ELSE fee_token_r, fee_excess_r))

\* The panic of rebalance and of eliminate_fee_excess.
FeePanicked(msg) == [tag |-> "panic", err |-> msg, value |-> 0]

\* rebalance from its second step on, as it would be if the right excess were
\* kept when the two excesses are combined.
RebalanceFromKeepRight(fee_token_l, x) ==
    IF fee_token_l = x.fee_token_r
    THEN IF IsNone(SignedAdd(x.fee_excess_l, x.fee_excess_r))
         THEN FeePanicked("Error adding fees: overflow")
         ELSE RebalanceTokens(fee_token_l, x.fee_excess_l + x.fee_excess_r,
                              x.fee_token_r, x.fee_excess_r)
    ELSE RebalanceTokens(fee_token_l, x.fee_excess_l, x.fee_token_r, x.fee_excess_r)

\* FeeExcess::rebalance from its second step on: fee_token_l is the left
\* token the first step chose.
RebalanceFrom(fee_token_l, x) ==
    IF fee_token_l = x.fee_token_r
    THEN IF IsNone(SignedAdd(x.fee_excess_l, x.fee_excess_r))
         THEN FeePanicked("Error adding fees: overflow")
         ELSE RebalanceTokens(fee_token_l, x.fee_excess_l + x.fee_excess_r,
                              x.fee_token_r, 0)
    ELSE RebalanceTokens(fee_token_l, x.fee_excess_l, x.fee_token_r, x.fee_excess_r)

\* FeeExcess::rebalance. Result [tag, err, value], tag "Ok" or "panic".
Rebalance(x) ==
    RebalanceFrom(IF x.fee_excess_l = 0 THEN x.fee_token_r ELSE x.fee_token_l, x)

\* eliminate_fee_excess as it would be if the middle excess went to the left
\* slot whatever that slot's token.
EliminateFeeExcessAlwaysLeft(l, m, r) ==
    IF IsNone(SignedAdd(l[2], m[2])) THEN FeePanicked("Error adding fees: Overflow")
    ELSE Ok(<< <<m[1], l[2] + m[2]>>, r >>)

\* eliminate_fee_excess((fee_token_l, fee_excess_l), (fee_token_m,
\* fee_excess_m), (fee_token_r, fee_excess_r)); a pair is <<token, excess>>.
\* Result [tag, err, value], value the two pairs left.
EliminateFeeExcess(l, m, r) ==
    IF l[1] = m[1] \/ l[2] = 0
    THEN IF IsNone(SignedAdd(l[2], m[2])) THEN FeePanicked("Error adding fees: Overflow")
         ELSE Ok(<< <<m[1], l[2] + m[2]>>, r >>)
    ELSE IF r[1] = m[1] \/ r[2] = 0
    THEN IF IsNone(SignedAdd(r[2], m[2])) THEN FeePanicked("Error adding fees: Overflow")
         ELSE Ok(<< l, <<m[1], r[2] + m[2]>> >>)
    ELSE IF m[2] = 0 THEN Ok(<<l, r>>)
    ELSE FeePanicked("Error eliminating fee excess")

\* The end of combine: the slots left by the second elimination, rebalanced.
CombineSecond(e2) ==
    IF e2.tag = "panic" THEN e2
    ELSE Rebalance(FeeExcess(e2.value[1][1], e2.value[1][2], e2.value[2][1], e2.value[2][2]))

\* combine after the first elimination e1: fee_excess2_l is eliminated.
CombineFirst(e1, b) ==
    IF e1.tag = "panic" THEN e1
    ELSE CombineSecond(EliminateFeeExcess(e1.value[1], e1.value[2],
                                          <<b.fee_token_r, b.fee_excess_r>>))

\* combine as it would be without the rebalance at its end.
CombineWithoutRebalance(a, b) ==
    LET e1 == EliminateFeeExcess(<<a.fee_token_l, a.fee_excess_l>>,
                                 <<a.fee_token_r, a.fee_excess_r>>,
                                 <<b.fee_token_l, b.fee_excess_l>>)
        e2 == IF e1.tag = "panic" THEN e1
              ELSE EliminateFeeExcess(e1.value[1], e1.value[2],
                                      <<b.fee_token_r, b.fee_excess_r>>)
    IN IF e2.tag = "panic" THEN e2
       ELSE Ok(FeeExcess(e2.value[1][1], e2.value[1][2], e2.value[2][1], e2.value[2][2]))

\* FeeExcess::combine. Result [tag, err, value], tag "Ok" or "panic".
Combine(a, b) ==
    CombineFirst(EliminateFeeExcess(<<a.fee_token_l, a.fee_excess_l>>,
                                    <<a.fee_token_r, a.fee_excess_r>>,
                                    <<b.fee_token_l, b.fee_excess_l>>),
                 b)

\* ------------------------------------------------------------------ the fee excess program
\* The tokens of fee excesses are 0 (the default token) .. MaxExcessToken.
MaxExcessToken == 2
ExcessTokens == 0 .. MaxExcessToken
\* The excesses: zero, the smallest and the largest of each sign.
ExcessValues == {0 - MaxAmount, 0 - 1, 0, 1, MaxAmount}
FeeExcesses ==
    [ fee_token_l : ExcessTokens, fee_excess_l : ExcessValues,
      fee_token_r : ExcessTokens, fee_excess_r : ExcessValues ]

\* The program is given two fee excesses.
InitExcess ==
    /\ db = DbEmpty
    /\ masks = [m \in Masks |-> MaskEmpty]
    /\ panicked = "none"
    /\ nops = 0
    /\ limit = 1
    /\ NoZkapp
    /\ \E a \in FeeExcesses, b \in FeeExcesses :
          last_op = Op("given", Root, [a |-> a, b |-> b], -1, "")

\* The call of a function of fee_excess.rs on what the program was given:
\* last_op keeps the arguments and the value returned; a panic aborts.
Returned(name, r) ==
    /\ last_op.op = "given"
    /\ nops' = nops + 1
    /\ panicked' = IF r.tag = "panic" THEN r.err ELSE "none"
    /\ last_op' = Op(name, Root, [a |-> last_op.arg.a, b |-> last_op.arg.b,
                                  result |-> r.value], -1, r.tag)
    /\ UNCHANGED <<db, masks, limit, global_state, local_state, command>>

\* FeeExcess::rebalance on the first excess
DoRebalance == Returned("rebalance", Rebalance(last_op.arg.a))

\* FeeExcess::combine on the two excesses
DoCombine == Returned("combine", Combine(last_op.arg.a, last_op.arg.b))

NextExcess == DoRebalance \/ DoCombine

\* Runs of the fee excess program.
SpecExcess == InitExcess /\ [][NextExcess]_vars

\* ------------------------------------------------------------------ claims on fee excesses
\* C15: when rebalance returns, rebalancing what it returned returns the
\* same again; and when the two tokens of the argument are equal, what it
\* returned has a right excess of zero.
RebalanceIdempotent ==
    (last_op.op = "rebalance" /\ last_op.tag = "Ok") =>
        /\ Rebalance(last_op.arg.result) = Ok(last_op.arg.result)
        /\ last_op.arg.a.fee_token_l = last_op.arg.a.fee_token_r =>
              last_op.arg.result.fee_excess_r = 0

\* rebalance returned the sum of two nonzero excesses of one token other than
\* the default token on the left.
RebalanceCombinedReached ==
    /\ last_op.op = "rebalance"
    /\ last_op.tag = "Ok"
    /\ last_op.arg.a.fee_token_l = last_op.arg.a.fee_token_r
    /\ last_op.arg.a.fee_token_l # DefaultToken
    /\ last_op.arg.a.fee_excess_l = 1
    /\ last_op.arg.a.fee_excess_r = 1
    /\ last_op.arg.result.fee_excess_l = 2

\* The excess of token t in the slots given, a slot being <<token, excess>>.
RECURSIVE ExcessOf(_, _)
ExcessOf(slots, t) ==
    IF slots = <<>> THEN 0
    ELSE (IF Head(slots)[1] = t THEN Head(slots)[2] ELSE 0) + ExcessOf(Tail(slots), t)
SlotsOf(x) == << <<x.fee_token_l, x.fee_excess_l>>, <<x.fee_token_r, x.fee_excess_r>> >>

\* The canonical form of a fee excess: an excess of zero has the default
\* token, a single excess other than zero is on the left, and two excesses
\* other than zero have different tokens.
Canonical(x) ==
    /\ x.fee_excess_l = 0 => x.fee_token_l = DefaultToken
    /\ x.fee_excess_r = 0 => x.fee_token_r = DefaultToken
    /\ x.fee_excess_l = 0 => x.fee_excess_r = 0
    /\ ~(x.fee_token_l = x.fee_token_r /\ x.fee_excess_l # 0 /\ x.fee_excess_r # 0)

\* C16: when combine(a, b) returns, what it returned is in canonical form and
\* holds, of each token, the sum of the excesses of that token in the four
\* slots of a and b.
CombineCanonicalAndConserves ==
    (last_op.op = "combine" /\ last_op.tag = "Ok") =>
        /\ Canonical(last_op.arg.result)
        /\ \A t \in ExcessTokens :
              ExcessOf(SlotsOf(last_op.arg.result), t) =
                 ExcessOf(SlotsOf(last_op.arg.a) \o SlotsOf(last_op.arg.b), t)

\* combine returned with two excesses other than zero left, after both
\* eliminations had an excess other than zero to move.
CombineTwoTokensReached ==
    /\ last_op.op = "combine"
    /\ last_op.tag = "Ok"
    /\ last_op.arg.a.fee_excess_l # 0 /\ last_op.arg.a.fee_excess_r # 0
    /\ last_op.arg.b.fee_excess_l # 0 /\ last_op.arg.b.fee_excess_r # 0
    /\ last_op.arg.a.fee_token_l # last_op.arg.a.fee_token_r
    /\ last_op.arg.b.fee_token_l # last_op.arg.b.fee_token_r
    /\ last_op.arg.result.fee_excess_l # 0
    /\ last_op.arg.result.fee_excess_r # 0

\* ------------------------------------------------------------------ the timing program
\* The amounts and slots of the timing program: the two smallest and the two
\* largest of their width.
TimingAmounts == {0, 1, MaxAmount - 1, MaxAmount}
TimingSlots == {0, 1, MaxSlot - 1, MaxSlot}
Timings ==
    { Timed(initial_minimum_balance, cliff_time, cliff_amount, vesting_period,
            vesting_increment) :
        initial_minimum_balance \in TimingAmounts, cliff_time \in TimingSlots,
        cliff_amount \in TimingAmounts, vesting_period \in TimingSlots,
        vesting_increment \in TimingAmounts }

\* The program is given an account, untimed or timed, a transaction amount
\* and two slots, the first before the second.
InitTiming ==
    /\ db = DbEmpty
    /\ masks = [m \in Masks |-> MaskEmpty]
    /\ panicked = "none"
    /\ nops = 0
    /\ limit = 1
    /\ NoZkapp
    /\ \E timing \in {Untimed} \cup Timings, balance \in TimingAmounts,
          txn_amount \in TimingAmounts, s1 \in TimingSlots, s2 \in TimingSlots :
          /\ s1 < s2
          /\ last_op = Op("given", Root,
                          [ account |-> TxAccount(1, DefaultToken, balance, "None", timing),
                            txn_amount |-> txn_amount, s1 |-> s1, s2 |-> s2 ],
                          -1, "")

\* The call of a timing function on what the program was given: last_op
\* keeps the arguments and the value returned; a panic aborts.
TimingReturned(name, tag, result) ==
    /\ last_op.op = "given"
    /\ nops' = nops + 1
    /\ panicked' = IF tag = "panic" THEN result.err ELSE "none"
    /\ last_op' = Op(name, Root,
                     [ account |-> last_op.arg.account, txn_amount |-> last_op.arg.txn_amount,
                       s1 |-> last_op.arg.s1, s2 |-> last_op.arg.s2, result |-> result ],
                     -1, tag)
    /\ UNCHANGED <<db, masks, limit, global_state, local_state, command>>

\* account_min_balance_at_slot on the timing of a timed account, at the first
\* slot and at the second
DoAccountMinBalanceAtSlot ==
    /\ last_op.arg.account.timing.kind = "Timed"
    /\ TimingReturned("account_min_balance_at_slot", "",
                      [ at_s1 |-> CurrMinBalance(last_op.arg.account.timing, last_op.arg.s1),
                        at_s2 |-> CurrMinBalance(last_op.arg.account.timing, last_op.arg.s2) ])

\* validate_timing_with_min_balance on the account, the amount and the first
\* slot
DoValidateTiming ==
    TimingReturned("validate_timing_with_min_balance",
                   ValidateTimingWithMinBalance(last_op.arg.account, last_op.arg.txn_amount,
                                                last_op.arg.s1).tag,
                   ValidateTimingWithMinBalance(last_op.arg.account, last_op.arg.txn_amount,
                                                last_op.arg.s1))

NextTiming == DoAccountMinBalanceAtSlot \/ DoValidateTiming

\* Runs of the timing program.
SpecTiming == InitTiming /\ [][NextTiming]_vars

\* ------------------------------------------------------------------ claims on timing
\* C17: the minimum balance of a timing record at a slot is at least its
\* minimum balance at any later slot, also when the product of the number of
\* periods and the vesting increment exceeds the width of an amount.
MinBalanceNeverGrows ==
    last_op.op = "account_min_balance_at_slot" =>
        last_op.arg.result.at_s1 >= last_op.arg.result.at_s2

\* The minimum balance was computed at two slots past the cliff, at the
\* second of which the product of periods and increment exceeds the largest
\* amount, and it went down from the first to the second.
SaturatedDecrementReached ==
    /\ last_op.op = "account_min_balance_at_slot"
    /\ last_op.arg.s1 >= last_op.arg.account.timing.cliff_time
    /\ last_op.arg.account.timing.vesting_period > 0
    /\ ((last_op.arg.s2 - last_op.arg.account.timing.cliff_time)
           \div last_op.arg.account.timing.vesting_period)
          * last_op.arg.account.timing.vesting_increment > MaxAmount
    /\ last_op.arg.result.at_s1 > last_op.arg.result.at_s2

\* The minimum balance of an account at a slot: 0 when it is untimed.
MinBalanceAtSlot(account, s) ==
    IF account.timing.kind = "Untimed" THEN 0 ELSE CurrMinBalance(account.timing, s)

\* C18: validate_timing_with_min_balance returns the error of an
\* insufficient balance exactly when the balance is below the amount;
\* otherwise the error of an invalid timing exactly when the balance less the
\* amount is below the minimum balance at the slot; otherwise Ok, with the
\* timing Untimed exactly when that minimum is 0 and with the timing of the
\* account when it is positive.
ValidateTimingAsSpecified ==
    last_op.op = "validate_timing_with_min_balance" =>
        LET account == last_op.arg.account
            min_balance == MinBalanceAtSlot(account, last_op.arg.s1)
            r == last_op.arg.result
        IN IF account.balance < last_op.arg.txn_amount
           THEN last_op.tag = "Err" /\ r.err = "the balance is insufficient"
           ELSE IF account.balance - last_op.arg.txn_amount < min_balance
           THEN last_op.tag = "Err" /\ r.err = "balance below the calculated minimum balance"
           ELSE /\ last_op.tag = "Ok"
                /\ r.timing = Untimed <=> min_balance = 0
                /\ min_balance > 0 => r.timing = account.timing
                /\ r.min_balance = min_balance

\* ------------------------------------------------------------------ claims on the token index
\* The ids of the accounts stored in a database that carry token t.
Carriers(d, t) ==
    { AccountIdOf(Unwrap(d.account[i])) :
        i \in { j \in Indices : IsSome(d.account[j]) /\ Unwrap(d.account[j]).token_id = t } }

\* C19: in the root database token_owner(t) is None for a token no stored
\* account carries, and for a token some stored account carries it is the id
\* of the first account that brought the token in: the id of a stored account
\* carrying t, which stays the owner for as long as its account is stored.
TokenOwnerIsFirstStep ==
    \A t \in Tokens :
        /\ Carriers(db', t) = {} => DbTokenOwner(db', t) = None
        /\ Carriers(db', t) # {} =>
              /\ IsSome(DbTokenOwner(db', t))
              /\ Unwrap(DbTokenOwner(db', t)) \in Carriers(db', t)
        /\ ( /\ IsSome(DbTokenOwner(db, t))
             /\ Unwrap(DbTokenOwner(db, t)) \in Carriers(db, t)
             /\ Unwrap(DbTokenOwner(db, t)) \in Carriers(db', t) ) =>
              DbTokenOwner(db', t) = DbTokenOwner(db, t)
TokenOwnerIsFirst == [][TokenOwnerIsFirstStep]_vars

\* ------------------------------------------------------------------ the root database program
\* Calls on the root database of a run.
MaxRootOps == 3

\* MaskImpl::set_all_accounts_rooted_at(addr, accounts): the leaves below the
\* node at (level, pos), in index order, are set to the accounts, as far as
\* both go.
SetAllAccountsRootedAt(w, l, level, pos, accounts) ==
    SetBatchImpl(w, l,
                 [ k \in 1 .. (IF Len(accounts) < 2 ^ (Depth - level)
                               THEN Len(accounts) ELSE 2 ^ (Depth - level)) |->
                     [addr |-> pos * 2 ^ (Depth - level) + k - 1, account |-> accounts[k]] ])

\* The accounts handed to set_all_accounts_rooted_at: accounts of different
\* ids.
RootedLists ==
    { [k \in 1 .. n |-> BatchAccounts[k + s]] :
        n \in 1 .. MaxBatch, s \in 0 .. (Len(BatchAccounts) - MaxBatch) }

InitRoot == InitLedgers /\ NoZkapp /\ limit = MaxRootOps

\* A call on the root database that leaves world w: last_op keeps, with the
\* input, whether a memoized root hash was there when the call was made.
RootCall(name, input, addr, tag, w) ==
    /\ Running
    /\ Continue(w)
    /\ last_op' = Op(name, Root, [cached |-> IsSome(db.root_hash), input |-> input],
                     addr, tag)

\* set on the root database
RootSet(addr, account) ==
    RootCall("set", account, addr, "", SetImpl(World, Root, addr, account, None))

\* set_at_index on the root database
RootSetAtIndex(index, account) ==
    RootCall("set_at_index", account, index, "", SetImpl(World, Root, index, account, None))

\* set_batch on the root database
RootSetBatch(list) ==
    RootCall("set_batch", list, -1, "", SetBatchImpl(World, Root, list))

\* get_or_create_account on the root database
RootGetOrCreate(account) ==
    RootCall("get_or_create_account", account,
             GetOrCreateAccount(World, Root, AccountIdOf(account), account).addr,
             GetOrCreateAccount(World, Root, AccountIdOf(account), account).tag,
             GetOrCreateAccount(World, Root, AccountIdOf(account), account).w)

\* set_all_accounts_rooted_at on the root database
RootSetAllAccountsRootedAt(level, pos, accounts) ==
    RootCall("set_all_accounts_rooted_at", accounts, -1, "",
             SetAllAccountsRootedAt(World, Root, level, pos, accounts))

\* remove_accounts on the root database
RootRemove(ids) ==
    RootCall("remove_accounts", ids, -1, "", RemoveAccounts(World, Root, ids))

\* merkle_root on the root database
RootMerkleRoot ==
    RootCall("merkle_root", DbMerkleRootValue(db), -1, "",
             [World EXCEPT !.db = DbMerkleRoot(db)])

NextRoot ==
    \/ \E addr \in Indices, account \in Accounts : RootSet(addr, account)
    \/ \E index \in Indices, account \in Accounts : RootSetAtIndex(index, account)
    \/ \E list \in BatchLists : RootSetBatch(list)
    \/ \E account \in Accounts : RootGetOrCreate(account)
    \/ \E level \in 0 .. Depth, accounts \in RootedLists :
          \E pos \in 0 .. (2 ^ level - 1) : RootSetAllAccountsRootedAt(level, pos, accounts)
    \/ \E ids \in (SUBSET Ids) \ {{}} : RootRemove(ids)
    \/ RootMerkleRoot

\* Runs of the root database program.
SpecRoot == InitRoot /\ [][NextRoot]_vars

\* ------------------------------------------------------------------ claims on the memoized root
\* C20: after any calls of get_or_create_account, set, set_at_index,
\* set_batch, set_all_accounts_rooted_at and remove_accounts on the root
\* database, with calls of merkle_root between them, merkle_root() returns
\* what root_hash() computes from the tree: a memoized root is never stale.
MerkleRootIsFresh ==
    /\ DbMerkleRootValue(db) = DbRootHash(db)
    /\ last_op.op = "merkle_root" => last_op.arg.input = DbRootHash(db)

\* set_all_accounts_rooted_at was called on a database that held a memoized
\* root, it wrote two accounts, and the memoized root is gone.
MemoizedRootDroppedReached ==
    /\ last_op.op = "set_all_accounts_rooted_at"
    /\ last_op.arg.cached
    /\ Len(last_op.arg.input) = 2
    /\ DbNumAccounts(db) >= 2
    /\ IsNone(db.root_hash)
    /\ panicked = "none"

\* merkle_root was called on a database that held accounts and no memoized
\* root, and returned the root of the tree.
MemoizedRootFilledReached ==
    /\ last_op.op = "merkle_root"
    /\ ~last_op.arg.cached
    /\ nops = MaxRootOps
    /\ DbNumAccounts(db) >= 2
    /\ db.root_hash = Some(DbRootHash(db))

\* ------------------------------------------------------------------ inner hashes
\* Calls in one run of the inner-hash program.
MaxHashOps == 2

\* Addresses of inner nodes and leaves, as (length, position in the level),
\* and addresses one bit longer than a leaf's.
HashLevels == 0 .. (Depth + 1)

\* Database::emulate_recursive. Result [hash, index, nremaining]: the hash
\* and the values left in *account_index and *nremaining.
RECURSIVE DbEmulateRecursive(_, _, _, _)
DbEmulateRecursive(d, current_depth, account_index, nremaining) ==
    IF current_depth = 0
    THEN [hash |-> IF IsSome(DbGet(d, account_index))
                   THEN HashLeaf(Unwrap(DbGet(d, account_index)))
                   ELSE EmptyHashAtDepth(0),
          index |-> account_index + 1,
          nremaining |-> IF nremaining > 0 THEN nremaining - 1 ELSE 0]
    ELSE LET left == IF nremaining > 0
                     THEN DbEmulateRecursive(d, current_depth - 1, account_index, nremaining)
                     ELSE [hash |-> EmptyHashAtDepth(current_depth - 1),
                           index |-> account_index, nremaining |-> nremaining]
             right == IF left.nremaining > 0
                      THEN DbEmulateRecursive(d, current_depth - 1, left.index, left.nremaining)
                      ELSE [hash |-> EmptyHashAtDepth(current_depth - 1),
                            index |-> left.index, nremaining |-> left.nremaining]
         IN [hash |-> HashNode(current_depth - 1, left.hash, right.hash),
             index |-> right.index, nremaining |-> right.nremaining]

\* Database::naccounts(): the number of leaves of the tree, with or without
\* an account; it is not the field naccounts that num_accounts returns.
DbNaccounts(d) == Cardinality({ i \in Indices : d.leaf[i] })

\* Database::emulate_tree_to_get_hash_at for an address no longer than the
\* depth: the first child is the leftmost leaf below the address.
DbEmulateTreeToGetHashAt(d, length, pos) ==
    DbEmulateRecursive(d, Depth - length, pos * 2 ^ (Depth - length),
                       IF DbNaccounts(d) > pos * 2 ^ (Depth - length)
                       THEN DbNaccounts(d) - pos * 2 ^ (Depth - length) ELSE 0).hash

\* The ways Database::emulate_tree_to_get_hash_at aborts on an address longer
\* than the depth: iter_children yields nothing and the unwrap of the first
\* child fails, or tree_depth - addr.length() goes below 0.
InnerHashAborts ==
    { "called Option::unwrap() on a None value", "attempt to subtract with overflow" }

\* Database::get_inner_hash_at_addr: Ok(res) is its only return.
DbGetInnerHashAtAddr(d, length, pos, abort) ==
    IF length > Depth THEN [tag |-> "panic", err |-> abort, value |-> 0]
    ELSE Ok(DbEmulateTreeToGetHashAt(d, length, pos))

\* MaskImpl::emulate_tree_to_get_hash_at
EmulateTreeToGetHashAt(w, l, length, pos) ==
    EmulateRecursive(w, l, length, pos * 2 ^ (Depth - length), 2 ^ (Depth - length)).hash

\* MaskImpl::get_inner_hash_at_addr
GetInnerHashAtAddr(w, l, length, pos) ==
    IF length > Depth THEN Err("()")
    ELSE Ok(EmulateTreeToGetHashAt(w, l, length, pos))

\* ------------------------------------------------------------------ the inner-hash program
InitHash == InitLedgers /\ NoZkapp /\ limit = MaxHashOps

\* A read that returned r: the ledgers are as they were; an abort ends the run.
HashRead(name, l, length, pos, r) ==
    /\ Running
    /\ nops' = nops + 1
    /\ panicked' = IF r.tag = "panic" THEN r.err ELSE "none"
    /\ last_op' = Op(name, l, [length |-> length, pos |-> pos, value |-> r.value], -1, r.tag)
    /\ UNCHANGED <<db, masks, limit, global_state, local_state, command>>

\* Database::get_inner_hash_at_addr on the root database
DoDbGetInnerHashAtAddr(length, pos, abort) ==
    HashRead("Database::get_inner_hash_at_addr", Root, length, pos,
             DbGetInnerHashAtAddr(db, length, pos, abort))

\* MaskImpl::get_inner_hash_at_addr on the root mask or an attached mask
DoGetInnerHashAtAddr(l, length, pos) ==
    HashRead("MaskImpl::get_inner_hash_at_addr", l, length, pos,
             GetInnerHashAtAddr(World, l, length, pos))

NextHash ==
    \/ \E l \in Ledgers, addr \in Indices, account \in Accounts : Set(l, addr, account)
    \/ \E l \in Ledgers, account \in Accounts : GetOrCreate(l, account)
    \/ \E length \in HashLevels, abort \in InnerHashAborts :
          \E pos \in 0 .. (2 ^ length - 1) : DoDbGetInnerHashAtAddr(length, pos, abort)
    \/ \E l \in Ledgers, length \in HashLevels :
          \E pos \in 0 .. (2 ^ length - 1) : DoGetInnerHashAtAddr(l, length, pos)

\* Runs of the inner-hash program.
SpecHash == InitHash /\ [][NextHash]_vars

\* ------------------------------------------------------------------ claims on inner hashes
\* C21: get_inner_hash_at_addr(addr) returns an error value, neither a hash
\* nor an abort, whenever addr.length > depth, and Ok for every address with
\* length <= depth, on the root database and on a mask alike.
InnerHashErrIffTooLong ==
    last_op.op \in {"Database::get_inner_hash_at_addr", "MaskImpl::get_inner_hash_at_addr"}
        => /\ last_op.arg.length > Depth => last_op.tag = "Err" /\ panicked = "none"
           /\ last_op.arg.length <= Depth => last_op.tag = "Ok" /\ panicked = "none"

\* The same for MaskImpl::get_inner_hash_at_addr alone, which the root mask
\* and the attached masks share.
MaskInnerHashErrIffTooLong ==
    last_op.op = "MaskImpl::get_inner_hash_at_addr"
        => /\ last_op.arg.length > Depth => last_op.tag = "Err" /\ panicked = "none"
           /\ last_op.arg.length <= Depth => last_op.tag = "Ok" /\ panicked = "none"

\* ------------------------------------------------------------------ claims on the steps of a zkApp command
\* C22: a step of apply that records one or more failures, the start step
\* included, does not abort: it returns with the failures in the step's bucket
\* of failure_status_tbl and, unless it was the last step, which resets it,
\* with local success false; the steps that follow are still processed.
FailedStepReturns ==
    /\ panicked # "assert_with_failure_status_tbl"
    /\ last_op.op = "apply" /\ last_op.tag = "failed" =>
          /\ panicked = "none"
          /\ local_state.failure_status_tbl # <<>>
          /\ Head(local_state.failure_status_tbl) # <<>>
          /\ ~command.done => ~local_state.success

\* A step after the start step recorded a failure and returned.
LaterStepFailedReached ==
    /\ last_op.op = "apply" /\ last_op.tag = "failed"
    /\ command.steps >= 2
    /\ panicked = "none"

\* ------------------------------------------------------------------ claims on the fee excess of a zkApp command
\* The local fee excess after the update u of a step that works on ledger:
\* the excess before it, less the account creation fee when the account of u
\* is new, less the balance change of u when its token is the default one.
ExcessAfterUpdate(excess, ledger, u) ==
    LET e1 == IF IsNone(ledger[<<u.public_key, u.token_id>>])
              THEN AddFlagged(excess, 0 - constraint_constants.account_creation_fee).value
              ELSE excess
    IN IF u.token_id = DefaultToken THEN AddFlagged(e1, 0 - u.balance_change).value ELSE e1

\* A command of one update that calls no other: its start step is its last.
OneStepCommands == { c \in Commands : Len(c) = 1 /\ c[1].calls = <<>> }

\* A step of apply that returned: the update it processed, whether it was the
\* start step, whether it was the last, and the local excess after the update.
StepReturned == last_op'.op = "apply" /\ last_op'.tag # "panic" /\ nops' = nops + 1
StepUpdate == command'.processed[Len(command'.processed)]
StepIsStart == last_op'.ledger = "Yes"
StepIsLast == command'.done
StepExcess ==
    ExcessAfterUpdate(local_state.excess,
                      IF StepIsStart THEN global_state.ledger ELSE local_state.ledger,
                      StepUpdate)
StepBucket == Head(local_state'.failure_status_tbl)
StepHas(failure) == \E k \in 1 .. Len(StepBucket) : StepBucket[k] = failure

\* C23, for the steps that return: on the last step a nonzero local excess
\* records InvalidFeeExcess and leaves the global ledger and the global fee
\* excess as they were; a zero local excess with success adds the local excess
\* to the global fee excess, an overflow recording GlobalExcessOverflow and
\* leaving the global state as it was; either way the local excess is 0
\* afterwards. A step that is neither the start nor the last leaves the global
\* ledger and the global fee excess as they were.
LastStepSettlesReturnedStep ==
    StepReturned =>
        /\ StepIsLast /\ StepExcess # 0 =>
              StepHas("InvalidFeeExcess") /\ global_state' = global_state
        /\ ( /\ StepIsLast /\ StepExcess = 0
             /\ (StepIsStart \/ local_state.success)
             /\ ~StepHas("GlobalExcessOverflow")
             /\ StepBucket = <<>> ) =>
              global_state'.fee_excess = global_state.fee_excess + StepExcess
        /\ StepHas("GlobalExcessOverflow") => global_state' = global_state
        /\ StepIsLast => local_state'.excess = 0
        /\ ~StepIsStart /\ ~StepIsLast => global_state' = global_state
LastStepSettlesReturned == [][LastStepSettlesReturnedStep]_vars

\* C23: the same, and the last step returns to record InvalidFeeExcess also
\* when it is the start step of its command.
LastStepSettlesStep ==
    /\ LastStepSettlesReturnedStep
    /\ \A c \in OneStepCommands :
          ( /\ ZkApply("Yes", c)
            /\ ExcessAfterUpdate(local_state.excess, global_state.ledger, c[1].elt) # 0 ) =>
              panicked' = "none" /\ StepHas("InvalidFeeExcess")
LastStepSettles == [][LastStepSettlesStep]_vars

\* The step that ended a command of several steps had a nonzero local excess:
\* it recorded InvalidFeeExcess and left the global state as it found it.
InvalidFeeExcessReached ==
    /\ last_op.op = "apply" /\ last_op.tag = "failed"
    /\ command.done /\ command.steps >= 2
    /\ \E k \in 1 .. Len(Head(local_state.failure_status_tbl)) :
          Head(local_state.failure_status_tbl)[k] = "InvalidFeeExcess"
    /\ local_state.excess = 0

\* ------------------------------------------------------------------ claims on the caller of an update
\* The frame a step after the start step pops its update from: the current
\* frame, or the top of the call stack when the current frame has no update
\* left.
PoppedFrame ==
    IF local_state.stack_frame.calls = <<>> THEN PopCallStack(local_state.call_stack).frame
    ELSE local_state.stack_frame

\* C24: when the update popped by a step has a caller that is neither the
\* caller of the current frame nor its caller's caller, the step records
\* TokenOwnerNotCaller in its bucket, a recorded failure and not an abort, and
\* the command continues.
CallerMismatchIsRecordedStep ==
    ( /\ last_op'.op = "apply" /\ nops' = nops + 1
      /\ last_op'.ledger # "Yes"
      /\ PoppedFrame.calls # <<>>
      /\ Head(PoppedFrame.calls).elt.caller # PoppedFrame.caller
      /\ Head(PoppedFrame.calls).elt.caller # PoppedFrame.caller_caller ) =>
        /\ panicked' = "none"
        /\ StepHas("TokenOwnerNotCaller")
CallerMismatchIsRecorded == [][CallerMismatchIsRecordedStep]_vars

\* ------------------------------------------------------------------ the notification program
\* Calls in one run of the notification program.
MaxNotifyOps == 3

InitNotify == InitLedgers /\ NoZkapp /\ limit = MaxNotifyOps

\* A call that leaves world w: last_op keeps, with the input, the calls of
\* parent_set_notify made during the call.
NotifyCall(name, l, input, addr, w) ==
    /\ Running
    /\ Continue(w)
    /\ last_op' = Op(name, l, [input |-> input, notified |-> w.notified], addr, "")

\* set on any ledger
NotifySet(l, addr, account) ==
    NotifyCall("set", l, account, addr, SetImpl(World, l, addr, account, None))

\* commit on an attached mask
NotifyCommit(m) ==
    \E order \in Orders({ i \in Indices : IsSome(masks[m].owning_account[i]) }) :
        NotifyCall("commit", m, masks[m].owning_account, -1, Commit(World, m, order))

NextNotify ==
    \/ \E l \in Ledgers, addr \in Indices, account \in Accounts : NotifySet(l, addr, account)
    \/ \E m \in Masks : NotifyCommit(m)

\* Runs of the notification program.
SpecNotify == InitNotify /\ [][NextNotify]_vars

\* ------------------------------------------------------------------ claims on notification
\* C25: when m.commit() returns, every child of the parent of m other than m
\* has received parent_set_notify for each overlay account written into the
\* parent, and m has received none; when p.set(addr, acc) returns, every child
\* of p has received parent_set_notify for acc.
SiblingsAreNotified ==
    /\ last_op.op = "set" /\ panicked = "none" =>
          last_op.arg.notified =
              { <<c, last_op.addr, last_op.arg.input>> : c \in Children(last_op.ledger) }
    /\ last_op.op = "commit" /\ panicked = "none" =>
          last_op.arg.notified =
              { <<c, i, Unwrap(last_op.arg.input[i])>> :
                  c \in Children(ParentOf(last_op.ledger)) \ {last_op.ledger},
                  i \in { j \in Indices : IsSome(last_op.arg.input[j]) } }

\* A commit of a mask with two overlay accounts returned: its sibling was
\* notified of both and the mask of none.
SiblingNotifiedReached ==
    /\ last_op.op = "commit" /\ panicked = "none"
    /\ Cardinality({ j \in Indices : IsSome(last_op.arg.input[j]) }) = 2
    /\ Cardinality(last_op.arg.notified) = 2
    /\ \A n \in last_op.arg.notified : n[1] # last_op.ledger

\* ------------------------------------------------------------------ claims on the overlay of a mask
\* C26: in every state of an attached mask every account held in its overlay
\* has an index <= the index of last_filled() of the mask, so that
\* num_accounts counts it and get_or_create_account does not hand out its
\* leaf again as Added.
OverlayBelowLastFilled ==
    \A m \in Masks, i \in Indices :
        IsSome(masks[m].owning_account[i]) =>
            /\ IsSome(LastFilled(World, m))
            /\ i <= Unwrap(LastFilled(World, m))

\* C27: in every state of an attached mask each overlay account has its id in
\* id_to_addr and its token id in token_to_account, so that pruning or
\* removing an overlay account, through parent_set_notify or remove_accounts,
\* never aborts; two overlay accounts that share a token id can both be pruned
\* one after the other.
OverlayIsIndexed ==
    /\ \A m \in Masks, i \in Indices :
          IsSome(masks[m].owning_account[i]) =>
              /\ IsSome(masks[m].id_to_addr[AccountIdOf(Unwrap(masks[m].owning_account[i]))])
              /\ IsSome(masks[m].token_to_account[Unwrap(masks[m].owning_account[i]).token_id])
    /\ ~( /\ panicked = "unwrap on None"
          /\ last_op.op \in {"set", "set_at_index", "set_batch", "commit"} )

\* ------------------------------------------------------------------ claims on the Merkle root of the mask layer
\* C28: for the same ledger contents, every index below num_accounts holding
\* an account, the Merkle root that the mask layer computes
\* (MaskImpl::merkle_root) is the root database's merkle_root(); for a ledger
\* without accounts the mask layer's root is empty_hash_at_depth(depth).
MaskRootIsDatabaseRoot ==
    /\ (\A i \in Indices : i < NumAccounts(World, Root) => IsSome(Get(World, Root, i)))
          => MerkleRoot(World, Root) = DbMerkleRootValue(db)
    /\ \A l \in Ledgers :
          NumAccounts(World, l) = 0 => MerkleRoot(World, l) = EmptyHashAtDepth(Depth)

\* C28 for ledgers that hold an account: the first part alone.
FilledMaskRootIsDatabaseRoot ==
    ( /\ NumAccounts(World, Root) > 0
      /\ \A i \in Indices : i < NumAccounts(World, Root) => IsSome(Get(World, Root, i)) )
        => MerkleRoot(World, Root) = DbMerkleRootValue(db)

\* ------------------------------------------------------------------ claims on removal from a mask
\* The world after the step.
WorldAfter == [World EXCEPT !.db = db', !.masks = masks']

\* C29: after m.remove_accounts(ids) on an attached mask, for every id of ids
\* m.location_of_account(id) is None and m.get at the address the id had is
\* None, whether the id was shadowed in the mask only, stored in the parent
\* only, or both.
RemovedFromMaskStep ==
    ( /\ last_op'.op = "remove_accounts"
      /\ last_op'.ledger \in Masks
      /\ panicked' = "none" ) =>
        \A id \in last_op'.arg :
            /\ IsNone(LocationOfAccount(WorldAfter, last_op'.ledger, id))
            /\ IsSome(LocationOfAccount(World, last_op'.ledger, id)) =>
                  IsNone(Get(WorldAfter, last_op'.ledger,
                             Unwrap(LocationOfAccount(World, last_op'.ledger, id))))
RemovedFromMask == [][RemovedFromMaskStep]_vars

\* C29 for the ids that the mask does not shadow while its parent stores them,
\* and for those it shadows while its parent does not store them.
RemovedFromOneLayerStep ==
    ( /\ last_op'.op = "remove_accounts"
      /\ last_op'.ledger \in Masks
      /\ panicked' = "none" ) =>
        \A id \in last_op'.arg :
            IsSome(masks[last_op'.ledger].id_to_addr[id]) # IsSome(db.id_to_addr[id]) =>
                IsNone(LocationOfAccount(WorldAfter, last_op'.ledger, id))
RemovedFromOneLayer == [][RemovedFromOneLayerStep]_vars

\* ------------------------------------------------------------------ fee transfers on a ledger that is nearly full
\* The ledgers of the transaction program, and the ledgers after one set at
\* the last leaf or at the leaf before it: get_or_create_account has one free
\* leaf left, or none.
TxFullLedgers ==
    TxStartLedgers \cup
    { DbSet(DbEmpty, addr, a) :
        addr \in {NumLeaves - 2, NumLeaves - 1},
        a \in StartAccounts(2) \cup {TxAccount(2, 1, 0, "None", Untimed)} }

InitTxFull ==
    /\ db \in TxFullLedgers
    /\ masks = [m \in Masks |-> MaskEmpty]
    /\ panicked = "none"
    /\ nops = 0
    /\ last_op = Op("new", Root, "", -1, "")
    /\ NoZkapp
    /\ limit = MaxTxOps

\* Runs of the transaction program from these ledgers.
SpecTxFull == InitTxFull /\ [][NextTx]_vars

\* C30: when apply_fee_transfer returns Err, the ledger after the call is the
\* ledger before it: no receiver account has been created or credited (only
\* the root hash that apply_transaction computes first is memoized).
FeeTransferErrKeepsLedgerStep ==
    ( /\ last_op'.op = "apply_transaction"
      /\ last_op'.arg.kind = "FeeTransfer"
      /\ last_op'.tag = "Err" ) =>
        /\ db' = DbMerkleRoot(db)
        /\ masks' = masks
OutOfLeavesAfterCreation ==
    ( /\ last_op.op = "apply_transaction"
      /\ last_op.arg.kind = "FeeTransfer"
      /\ last_op.arg.err = "OutOfLeaves" ) =>
        /\ Len(last_op.arg.data) = 2
        /\ IsNewIn(db, Receiver(last_op.arg.data[1]))
        /\ ~IsNewIn(db, Receiver(last_op.arg.data[2]))

\* ------------------------------------------------------------------ claims on set and remove_accounts of the root database
\* C31: after set(addr, acc) on the root database whose leaf at addr held an
\* account of another id X, get(addr) is acc, acc.id is located at addr, the
\* owner of acc's token is acc.id and X has no location; a set onto an empty
\* leaf adds one to num_accounts and a set onto an occupied leaf leaves it.
SetReplacesIndicesStep ==
    last_op'.op = "set" =>
        LET addr == last_op'.addr
            acc == last_op'.arg.input
            old == DbGet(db, addr)
        IN /\ ( IsSome(old) /\ AccountIdOf(Unwrap(old)) # AccountIdOf(acc) ) =>
                 /\ DbGet(db', addr) = Some(acc)
                 /\ DbLocationOfAccount(db', AccountIdOf(acc)) = Some(addr)
                 /\ DbTokenOwner(db', acc.token_id) = Some(AccountIdOf(acc))
                 /\ DbLocationOfAccount(db', AccountIdOf(Unwrap(old))) = None
           /\ IsNone(old) => DbNumAccounts(db') = DbNumAccounts(db) + 1
           /\ IsSome(old) => DbNumAccounts(db') = DbNumAccounts(db)
SetReplacesIndices == [][SetReplacesIndicesStep]_vars

\* A set has replaced an account of another id and of the same token, the
\* one that owned the token.
SetOverOtherIdReached ==
    /\ last_op.op = "set"
    /\ DbGet(db, last_op.addr) = Some(last_op.arg.input)
    /\ DbNumAccounts(db) = 1
    /\ \E id \in Ids : id # AccountIdOf(last_op.arg.input)
                       /\ id[2] = last_op.arg.input.token_id
                       /\ DbLocationOfAccount(db, id) = None
    /\ nops = 2

\* ------------------------------------------------------------------ the removal program
\* The number of calls of a run of the removal program.
MaxRemoveOps == 3

\* The root database after get_or_create_account of up to three accounts.
RemoveStartLedgers ==
    { CreateIn(CreateIn(CreateIn(DbEmpty, o1), o2), o3) :
        o1 \in {None} \cup { Some(a) : a \in Accounts },
        o2 \in {None} \cup { Some(a) : a \in Accounts },
        o3 \in {None} \cup { Some(a) : a \in Accounts } }

InitRemove ==
    /\ db \in RemoveStartLedgers
    /\ masks = [m \in Masks |-> MaskEmpty]
    /\ panicked = "none"
    /\ nops = 0
    /\ last_op = Op("new", Root, "", -1, "")
    /\ NoZkapp
    /\ limit = MaxRemoveOps

NextRemove ==
    \/ \E ids \in (SUBSET Ids) \ {{}} : RootRemove(ids)
    \/ \E account \in Accounts : RootGetOrCreate(account)

\* Runs of remove_accounts and get_or_create_account on the root database.
SpecRemove == InitRemove /\ [][NextRemove]_vars

\* The greatest index of the database that holds an account.
GreatestFilled(d) ==
    IF \E i \in Indices : IsSome(DbGet(d, i))
    THEN Some(CHOOSE i \in Indices :
                 /\ IsSome(DbGet(d, i))
                 /\ \A j \in Indices : IsSome(DbGet(d, j)) => j <= i)
    ELSE None

\* C32: after remove_accounts on a root database, last_filled() is the
\* address of the greatest index that still holds an account, None when no
\* account remains, also when accounts below the last one were removed by
\* earlier calls.
LastFilledIsGreatest ==
    ( last_op.op = "remove_accounts" /\ panicked = "none" ) =>
        DbLastFilled(db) = GreatestFilled(db)

\* The same for a call of remove_accounts on a database without an empty
\* leaf below its last filled one.
NoHoleBelow(d) ==
    \A i \in Indices :
        ( IsSome(d.last_location) /\ i <= Unwrap(d.last_location) ) => IsSome(DbGet(d, i))
LastFilledIsGreatestStep ==
    ( last_op'.op = "remove_accounts" /\ panicked' = "none" /\ NoHoleBelow(db)
      /\ DbLastFilled(db) = GreatestFilled(db) ) =>
        DbLastFilled(db') = GreatestFilled(db')
LastFilledIsGreatestWithoutHoles == [][LastFilledIsGreatestStep]_vars

\* ------------------------------------------------------------------ pay_fee
\* AccountNonce is a u32; the model keeps NonceBits bits of it.
NonceBits == 2
MaxNonce == 2 ^ NonceBits - 1
\* u32::wrapping_add
WrappingAdd(n, k) == (n + k) % (2 ^ NonceBits)

\* validate_nonces
ValidateNonces(txn_nonce, account_nonce) ==
    IF account_nonce = txn_nonce THEN Ok(0)
    ELSE Err("Nonce in account different from nonce in transaction")

\* sub_amount
SubAmount(balance, amount) ==
    IF IsSome(CheckedSub(balance, amount)) THEN Ok(balance - amount)
    ELSE Err("insufficient funds")

\* What pay_fee returns: Ok with the account, Err, or a panic.
PayOk(account) == [tag |-> "Ok", err |-> "", account |-> Some(account)]
PayErr(e) == [tag |-> "Err", err |-> e, account |-> None]
PayPanic(msg) == [tag |-> "panic", err |-> msg, account |-> None]

\* The end of pay_fee_impl, after sub_amount and validate_nonces: the timing
\* is validated and the account is given its balance, nonce and timing.
PayFeeCharged(account, balance, timing) ==
    IF timing.tag = "panic" THEN PayPanic(timing.err)
    ELSE IF timing.tag = "Err" THEN PayErr(timing.err)
    ELSE PayOk([account EXCEPT !.balance = balance,
                               !.nonce = WrappingAdd(account.nonce, 1),
                               !.timing = timing.timing])

\* pay_fee_impl, after get_with_location has found the account.
PayFeeFound(account, nonce, fee, current_global_slot) ==
    IF SubAmount(account.balance, fee).tag = "Err" THEN PayErr("insufficient funds")
    ELSE IF ValidateNonces(nonce, account.nonce).tag = "Err"
    THEN PayErr(ValidateNonces(nonce, account.nonce).err)
    ELSE PayFeeCharged(account, SubAmount(account.balance, fee).value,
                       ValidateTiming(account, fee, current_global_slot))

\* pay_fee_impl with get_with_location
PayFeeImpl(w, l, nonce, fee_payer, fee, current_global_slot) ==
    IF IsNone(LocationOfAccount(w, l, fee_payer))
    THEN PayErr("The fee-payer account does not exist")
    ELSE IF IsNone(Get(w, l, Unwrap(LocationOfAccount(w, l, fee_payer))))
    THEN PayPanic("Ledger location with no account")
    ELSE PayFeeFound(Unwrap(Get(w, l, Unwrap(LocationOfAccount(w, l, fee_payer)))),
                     nonce, fee, current_global_slot)

\* pay_fee; the fee payer of a signed command has the default token, which
\* is its fee token.
PayFee(w, l, user_command, signer_pk, current_global_slot) ==
    IF user_command.fee_payer_pk # signer_pk
    THEN PayErr("Cannot pay fees from a public key that did not sign the transaction")
    ELSE PayFeeImpl(w, l, user_command.nonce, <<user_command.fee_payer_pk, DefaultToken>>,
                    user_command.fee, current_global_slot)

\* ------------------------------------------------------------------ the pay_fee program
\* The signed commands handed to pay_fee.
PayCommands ==
    [ fee_payer_pk : PublicKeys, signer : PublicKeys, fee : 0 .. MaxFee,
      nonce : {0, MaxNonce} ]

\* The fee payer accounts of a ledger before pay_fee.
PayAccounts ==
    { [TxAccount(1, DefaultToken, bal, "None", timing) EXCEPT !.nonce = n] :
        bal \in {1, MaxAmount}, timing \in {Untimed, StartTiming}, n \in {0, MaxNonce} }
PayStartLedgers ==
    { CreateIn(DbEmpty, o) : o \in {None} \cup { Some(a) : a \in PayAccounts } }

InitPay ==
    /\ db \in PayStartLedgers
    /\ masks = [m \in Masks |-> MaskEmpty]
    /\ panicked = "none"
    /\ nops = 0
    /\ last_op = Op("new", Root, "", -1, "")
    /\ NoZkapp
    /\ limit = MaxTxOps

\* pay_fee(user_command, signer_pk, ledger, current_global_slot) on the root
\* database; it writes nothing.
DoPayFee(user_command, current_global_slot) ==
    /\ Running
    /\ LET r == PayFee(World, Root, user_command, user_command.signer, current_global_slot)
       IN /\ Continue([World EXCEPT !.panic = IF r.tag = "panic" THEN r.err ELSE "none"])
          /\ last_op' = Op("pay_fee", Root,
                           [ cmd |-> user_command, slot |-> current_global_slot,
                             err |-> r.err, account |-> r.account ],
                           -1, r.tag)

NextPay == \E cmd \in PayCommands, slot \in TxSlots : DoPayFee(cmd, slot)

\* Runs of the pay_fee program.
SpecPay == InitPay /\ [][NextPay]_vars

\* C33: pay_fee from a fee payer whose nonce is the greatest one, with the
\* same nonce in the command and a balance that covers the fee, returns an
\* error; it never returns an account whose nonce wrapped around to 0.
NonceOverflowIsError ==
    ( /\ last_op.op = "pay_fee"
      /\ panicked = "none"
      /\ last_op.arg.cmd.signer = last_op.arg.cmd.fee_payer_pk
      /\ last_op.arg.cmd.nonce = MaxNonce
      /\ ~IsNewIn(db, <<last_op.arg.cmd.fee_payer_pk, DefaultToken>>)
      /\ StoredOrInit(db, <<last_op.arg.cmd.fee_payer_pk, DefaultToken>>).nonce = MaxNonce
      /\ StoredOrInit(db, <<last_op.arg.cmd.fee_payer_pk, DefaultToken>>).balance
            >= last_op.arg.cmd.fee ) =>
        /\ last_op.tag = "Err"
        /\ last_op.arg.account = None

\* The nonce that pay_fee returns is the old one plus one whenever the old
\* one is below the greatest.
NonceBelowMaxIsIncremented ==
    ( /\ last_op.op = "pay_fee"
      /\ last_op.tag = "Ok"
      /\ StoredOrInit(db, <<last_op.arg.cmd.fee_payer_pk, DefaultToken>>).nonce < MaxNonce ) =>
        Unwrap(last_op.arg.account).nonce =
            StoredOrInit(db, <<last_op.arg.cmd.fee_payer_pk, DefaultToken>>).nonce + 1

\* ------------------------------------------------------------------ the field updates of apply
\* The part of apply between the timing check and the write of the account,
\* on an account with all the fields it reads. Field elements, uris, symbols
\* and keys are small numbers.
AppStateSlots == 1 .. 8

\* ZkAppAccount::default()
ZkAppAccountDefault ==
    [ app_state |-> [i \in AppStateSlots |-> 0],
      verification_key |-> None,
      sequence_state |-> <<0, 0, 0, 0, 0>>,
      last_sequence_slot |-> 0,
      proved_state |-> FALSE,
      zkapp_uri |-> 0 ]

\* make_zkapp
MakeZkapp(a) == IF IsSome(a.zkapp) THEN a ELSE [a EXCEPT !.zkapp = Some(ZkAppAccountDefault)]

\* unmake_zkapp
UnmakeZkapp(a) ==
    IF IsSome(a.zkapp) /\ Unwrap(a.zkapp) = ZkAppAccountDefault
    THEN [a EXCEPT !.zkapp = None] ELSE a

\* SequenceEvents::push_events(s): the hash of the events onto s.
PushEvents(sequence_events, s) == s + Len(sequence_events)

\* update_sequence_state
UpdateSequenceState(sequence_state, sequence_events, txn_global_slot, last_sequence_slot) ==
    LET is_empty == sequence_events = <<>>
        s1 == IF is_empty THEN sequence_state[1]
              ELSE PushEvents(sequence_events, sequence_state[1])
        is_empty_or_this_slot == is_empty \/ txn_global_slot = last_sequence_slot
    IN [ sequence_state |->
             IF is_empty_or_this_slot
             THEN <<s1, sequence_state[2], sequence_state[3], sequence_state[4],
                    sequence_state[5]>>
             ELSE <<s1, sequence_state[1], sequence_state[2], sequence_state[3],
                    sequence_state[4]>>,
         last_sequence_slot |-> IF is_empty THEN last_sequence_slot ELSE txn_global_slot ]

\* Nonce::incr
Incr(nonce) == nonce + 1

\* What the field updates have so far: the account and the failures that
\* add_check has recorded, in the order of the checks.
Fields(a, failures) == [a |-> a, failures |-> failures]
FieldCheck(r, failure, b) == IF b THEN r.failures ELSE Append(r.failures, failure)
HasPermission(r, u, perm) ==
    ControllerCheck(u.proof_verifies, u.signature_verifies, r.a.permissions[perm])

\* proved_state and app_state
FieldsProvedState(a, u) ==
    LET zkapp == Unwrap(a.zkapp)
        keeping_app_state == \A i \in AppStateSlots : IsNone(u.app_state[i])
        changing_entire_app_state == \A i \in AppStateSlots : IsSome(u.app_state[i])
    IN IF keeping_app_state THEN zkapp.proved_state
       ELSE IF u.proof_verifies
       THEN IF changing_entire_app_state THEN TRUE ELSE zkapp.proved_state
       ELSE FALSE
FieldsAppState(r, u) ==
    Fields([r.a EXCEPT !.zkapp =
               Some([Unwrap(r.a.zkapp) EXCEPT
                       !.proved_state = FieldsProvedState(r.a, u),
                       !.app_state = [i \in AppStateSlots |->
                                         SetOrKeep(u.app_state[i],
                                                   Unwrap(r.a.zkapp).app_state[i])]])],
           FieldCheck(r, "UpdateNotPermittedAppState",
                      (\A i \in AppStateSlots : IsNone(u.app_state[i]))
                         \/ HasPermission(r, u, "edit_state")))

\* verification_key: an account without a key keeps none.
FieldsVerificationKey(r, u) ==
    Fields([r.a EXCEPT !.zkapp =
               Some([Unwrap(r.a.zkapp) EXCEPT
                       !.verification_key =
                           IF IsSome(@) THEN Some(SetOrKeep(u.verification_key, Unwrap(@)))
                           ELSE None])],
           FieldCheck(r, "UpdateNotPermittedVerificationKey",
                      IsNone(u.verification_key)
                         \/ HasPermission(r, u, "set_verification_key")))

\* sequence_events, and then unmake_zkapp
FieldsSequenceEvents(r, u, txn_global_slot) ==
    Fields(UnmakeZkapp(
             [r.a EXCEPT !.zkapp =
                Some([Unwrap(r.a.zkapp) EXCEPT
                        !.sequence_state =
                            UpdateSequenceState(Unwrap(r.a.zkapp).sequence_state,
                                                u.sequence_events, txn_global_slot,
                                                Unwrap(r.a.zkapp).last_sequence_slot)
                                .sequence_state,
                        !.last_sequence_slot =
                            UpdateSequenceState(Unwrap(r.a.zkapp).sequence_state,
                                                u.sequence_events, txn_global_slot,
                                                Unwrap(r.a.zkapp).last_sequence_slot)
                                .last_sequence_slot])]),
           FieldCheck(r, "UpdateNotPermittedAppState",
                      u.sequence_events = <<>> \/ HasPermission(r, u, "edit_sequence_state")))

\* zkapp_uri: set in the zkApp extension when the account has one.
FieldsZkappUri(r, u) ==
    Fields([r.a EXCEPT !.zkapp =
               IF IsSome(@)
               THEN Some([Unwrap(@) EXCEPT !.zkapp_uri = SetOrKeep(u.zkapp_uri, @)])
               ELSE None],
           FieldCheck(r, "UpdateNotPermittedZkappUri",
                      IsNone(u.zkapp_uri) \/ HasPermission(r, u, "set_zkapp_uri")))

\* token_symbol
FieldsTokenSymbol(r, u) ==
    Fields([r.a EXCEPT !.token_symbol = SetOrKeep(u.token_symbol, @)],
           FieldCheck(r, "UpdateNotPermittedTokenSymbol",
                      IsNone(u.token_symbol) \/ HasPermission(r, u, "set_token_symbol")))

\* delegate: set over the delegate the account has, its own key when new.
FieldsDelegate(r, u, account_is_new) ==
    LET base_delegate == IF account_is_new THEN Some(u.public_key) ELSE r.a.delegate
    IN Fields([r.a EXCEPT !.delegate =
                  IF IsSome(base_delegate)
                  THEN Some(SetOrKeep(u.delegate, Unwrap(base_delegate)))
                  ELSE None],
              FieldCheck(r, "UpdateNotPermittedDelegate",
                         IsNone(u.delegate)
                            \/ ( HasPermission(r, u, "set_delegate")
                                 /\ u.token_id = DefaultToken )))

\* nonce
FieldsNonce(r, u) ==
    Fields([r.a EXCEPT !.nonce = IF u.increment_nonce THEN Incr(@) ELSE @],
           FieldCheck(r, "UpdateNotPermittedNonce",
                      ~u.increment_nonce \/ HasPermission(r, u, "increment_nonce")))

\* voting_for
FieldsVotingFor(r, u) ==
    Fields([r.a EXCEPT !.voting_for = SetOrKeep(u.voting_for, @)],
           FieldCheck(r, "UpdateNotPermittedVotingFor",
                      IsNone(u.voting_for) \/ HasPermission(r, u, "set_voting_for")))

\* permissions
FieldsPermissions(r, u) ==
    Fields([r.a EXCEPT !.permissions = SetOrKeep(u.permissions, @)],
           FieldCheck(r, "UpdateNotPermittedPermissions",
                      IsNone(u.permissions) \/ HasPermission(r, u, "set_permissions")))

\* The field updates of apply in their order. Result [a, failures].
ApplyFields(a, account_is_new, u, txn_global_slot) ==
    FieldsPermissions(
      FieldsVotingFor(
        FieldsNonce(
          FieldsDelegate(
            FieldsTokenSymbol(
              FieldsZkappUri(
                FieldsSequenceEvents(
                  FieldsVerificationKey(
                    FieldsAppState(Fields(MakeZkapp(a), <<>>), u), u),
                  u, txn_global_slot), u), u), u, account_is_new), u), u), u)

\* ------------------------------------------------------------------ the field update program
\* The authorizations of an update: none, a proof, a signature.
Auths == { <<FALSE, FALSE>>, <<TRUE, FALSE>>, <<FALSE, TRUE>> }

\* Permissions that ask the same of every attribute.
PermissionProfiles ==
    { UserDefault } \cup
    { [p \in PermissionNames |-> c] : c \in {"None", "Proof", "Impossible"} }

\* The zkApp extensions of the accounts: none, one with a proved state, one
\* with a verification key and a uri.
FieldZkapps ==
    { None,
      Some([ZkAppAccountDefault EXCEPT !.proved_state = TRUE,
                                      !.app_state = [i \in AppStateSlots |-> 1]]),
      Some([ZkAppAccountDefault EXCEPT !.verification_key = Some(1), !.zkapp_uri = 1]) }

\* The accounts the updates are applied to.
FieldAccounts ==
    { [ public_key |-> 2, token_id |-> DefaultToken, nonce |-> 0, permissions |-> perm,
        delegate |-> delegate, token_symbol |-> 1, voting_for |-> 1, zkapp |-> zkapp ] :
        perm \in PermissionProfiles, delegate \in {None, Some(2)}, zkapp \in FieldZkapps }

\* An update that keeps every field.
KeepFields(proof_verifies, signature_verifies, token_id) ==
    [ public_key |-> 2, token_id |-> token_id,
      proof_verifies |-> proof_verifies, signature_verifies |-> signature_verifies,
      app_state |-> [i \in AppStateSlots |-> None],
      verification_key |-> None, sequence_events |-> <<>>, zkapp_uri |-> None,
      token_symbol |-> None, delegate |-> None, voting_for |-> None,
      permissions |-> None, increment_nonce |-> FALSE ]

\* The updates: one that keeps all, and the ones that differ from it in one
\* field, or in the app_state slots they set.
FieldUpdatesOf(k) ==
    { k,
      [k EXCEPT !.app_state = [i \in AppStateSlots |-> Some(2)]],
      [k EXCEPT !.app_state = [i \in AppStateSlots |-> Some(0)]],
      [k EXCEPT !.app_state = [i \in AppStateSlots |-> IF i = 1 THEN Some(2) ELSE None]],
      [k EXCEPT !.verification_key = Some(2)],
      [k EXCEPT !.sequence_events = <<1>>],
      [k EXCEPT !.zkapp_uri = Some(2)],
      [k EXCEPT !.token_symbol = Some(2)],
      [k EXCEPT !.delegate = Some(1)],
      [k EXCEPT !.voting_for = Some(2)],
      [k EXCEPT !.permissions = Some([p \in PermissionNames |-> "None"])],
      [k EXCEPT !.increment_nonce = TRUE] }
FieldUpdates ==
    UNION { FieldUpdatesOf(KeepFields(auth[1], auth[2], tok)) : auth \in Auths, tok \in Tokens }

\* The inputs of a run: the account, whether it is new, the update and the
\* slot are what the program starts with.
InitFields ==
    /\ db = DbEmpty
    /\ masks = [m \in Masks |-> MaskEmpty]
    /\ panicked = "none"
    /\ nops = 0
    /\ \E a \in FieldAccounts, account_is_new \in BOOLEAN, u \in FieldUpdates,
          slot \in TxSlots :
          last_op = Op("new", Root,
                       [a |-> a, account_is_new |-> account_is_new, u |-> u, slot |-> slot],
                       -1, "")
    /\ NoZkapp
    /\ limit = MaxTxOps

\* The field updates of one call of apply on the inputs; the ledgers are not
\* touched.
DoApplyFields ==
    /\ Running
    /\ last_op.op = "new"
    /\ Continue(World)
    /\ last_op' = Op("apply_fields", Root,
                     [ a |-> last_op.arg.a, account_is_new |-> last_op.arg.account_is_new,
                       u |-> last_op.arg.u, slot |-> last_op.arg.slot,
                       written |-> ApplyFields(last_op.arg.a, last_op.arg.account_is_new,
                                               last_op.arg.u, last_op.arg.slot).a,
                       failures |-> ApplyFields(last_op.arg.a, last_op.arg.account_is_new,
                                                last_op.arg.u, last_op.arg.slot).failures ],
                     -1, "")

NextFields == DoApplyFields

\* Runs of the field update program.
SpecFields == InitFields /\ [][NextFields]_vars

\* ------------------------------------------------------------------ claims on the field updates
\* The proved_state of an account, false without a zkApp extension.
ProvedStateOf(a) == IF IsSome(a.zkapp) THEN Unwrap(a.zkapp).proved_state ELSE FALSE
AllKeep(u) == \A i \in AppStateSlots : IsNone(u.app_state[i])
AllSet(u) == \A i \in AppStateSlots : IsSome(u.app_state[i])
IsFieldsOp == last_op.op = "apply_fields"

\* C34: after a zkApp step the written account's proved_state is true iff
\* the old proved_state was true and all eight app_state slots are Keep, or
\* the proof verified and all eight slots are Set; a verified proof that sets
\* only some of the slots yields proved_state = false.
ProvedStateIsAsSpecified ==
    IsFieldsOp =>
        ( ProvedStateOf(last_op.arg.written) <=>
            \/ ProvedStateOf(last_op.arg.a) /\ AllKeep(last_op.arg.u)
            \/ last_op.arg.u.proof_verifies /\ AllSet(last_op.arg.u) )

\* The same without the updates that a proof authorizes and that set some
\* slots and keep others.
ProvedStateOutsidePartialProof ==
    ( IsFieldsOp
      /\ ~( last_op.arg.u.proof_verifies /\ ~AllKeep(last_op.arg.u) /\ ~AllSet(last_op.arg.u) ) ) =>
        ( ProvedStateOf(last_op.arg.written) <=>
            \/ ProvedStateOf(last_op.arg.a) /\ AllKeep(last_op.arg.u)
            \/ last_op.arg.u.proof_verifies /\ AllSet(last_op.arg.u) )

\* The controller of a permission allows the update of the last call.
Allowed(perm) ==
    ControllerCheck(last_op.arg.u.proof_verifies, last_op.arg.u.signature_verifies,
                    last_op.arg.a.permissions[perm])

\* C35: after a zkApp step the nonce of the written account is the old nonce
\* plus one iff the update has increment_nonce set and the controller of
\* permissions.increment_nonce allows it; when it is set and not allowed the
\* nonce is unchanged and UpdateNotPermittedNonce is recorded; when it is not
\* set the nonce is unchanged and no nonce failure is recorded.
NonceIncrementedIffPermitted ==
    IsFieldsOp =>
        /\ ( last_op.arg.written.nonce = last_op.arg.a.nonce + 1 <=>
               last_op.arg.u.increment_nonce /\ Allowed("increment_nonce") )
        /\ ( last_op.arg.u.increment_nonce /\ ~Allowed("increment_nonce") ) =>
               /\ last_op.arg.written.nonce = last_op.arg.a.nonce
               /\ \E i \in DOMAIN last_op.arg.failures :
                     last_op.arg.failures[i] = "UpdateNotPermittedNonce"
        /\ ~last_op.arg.u.increment_nonce =>
               /\ last_op.arg.written.nonce = last_op.arg.a.nonce
               /\ \A i \in DOMAIN last_op.arg.failures :
                     last_op.arg.failures[i] # "UpdateNotPermittedNonce"

\* The nonce is the old one plus one iff increment_nonce is set, and the
\* failure is recorded iff it is set and not allowed.
NonceIncrementedIffSet ==
    IsFieldsOp =>
        /\ ( last_op.arg.written.nonce = last_op.arg.a.nonce + 1 <=>
               last_op.arg.u.increment_nonce )
        /\ ~last_op.arg.u.increment_nonce => last_op.arg.written.nonce = last_op.arg.a.nonce
        /\ ( \E i \in DOMAIN last_op.arg.failures :
                last_op.arg.failures[i] = "UpdateNotPermittedNonce" ) <=>
           ( last_op.arg.u.increment_nonce /\ ~Allowed("increment_nonce") )

\* The fields of an account that live in its zkApp extension, as they read
\* when there is none.
VerificationKeyOf(a) == IF IsSome(a.zkapp) THEN Unwrap(a.zkapp).verification_key ELSE None
ZkappUriOf(a) == IF IsSome(a.zkapp) THEN Unwrap(a.zkapp).zkapp_uri ELSE 0
AppStateOf(a) ==
    IF IsSome(a.zkapp) THEN Unwrap(a.zkapp).app_state ELSE [i \in AppStateSlots |-> 0]

\* Set(v) with the controller's consent writes v, for every field.
SetIsWritten ==
    /\ ( IsSome(last_op.arg.u.verification_key) /\ Allowed("set_verification_key") ) =>
           VerificationKeyOf(last_op.arg.written) = last_op.arg.u.verification_key
    /\ ( /\ IsSome(last_op.arg.u.delegate)
         /\ Allowed("set_delegate")
         /\ last_op.arg.u.token_id = DefaultToken ) =>
           last_op.arg.written.delegate = last_op.arg.u.delegate
    /\ ( IsSome(last_op.arg.u.zkapp_uri) /\ Allowed("set_zkapp_uri") ) =>
           ZkappUriOf(last_op.arg.written) = Unwrap(last_op.arg.u.zkapp_uri)
    /\ ( IsSome(last_op.arg.u.token_symbol) /\ Allowed("set_token_symbol") ) =>
           last_op.arg.written.token_symbol = Unwrap(last_op.arg.u.token_symbol)
    /\ ( IsSome(last_op.arg.u.voting_for) /\ Allowed("set_voting_for") ) =>
           last_op.arg.written.voting_for = Unwrap(last_op.arg.u.voting_for)
    /\ ( IsSome(last_op.arg.u.permissions) /\ Allowed("set_permissions") ) =>
           last_op.arg.written.permissions = Unwrap(last_op.arg.u.permissions)
    /\ \A i \in AppStateSlots :
          ( IsSome(last_op.arg.u.app_state[i]) /\ Allowed("edit_state") ) =>
             AppStateOf(last_op.arg.written)[i] = Unwrap(last_op.arg.u.app_state[i])

\* Keep leaves every field of an account that is not new as it was.
KeepIsKept ==
    ~last_op.arg.account_is_new =>
        /\ IsNone(last_op.arg.u.verification_key) =>
              VerificationKeyOf(last_op.arg.written) = VerificationKeyOf(last_op.arg.a)
        /\ IsNone(last_op.arg.u.delegate) =>
              last_op.arg.written.delegate = last_op.arg.a.delegate
        /\ IsNone(last_op.arg.u.zkapp_uri) =>
              ZkappUriOf(last_op.arg.written) = ZkappUriOf(last_op.arg.a)
        /\ IsNone(last_op.arg.u.token_symbol) =>
              last_op.arg.written.token_symbol = last_op.arg.a.token_symbol
        /\ IsNone(last_op.arg.u.voting_for) =>
              last_op.arg.written.voting_for = last_op.arg.a.voting_for
        /\ IsNone(last_op.arg.u.permissions) =>
              last_op.arg.written.permissions = last_op.arg.a.permissions
        /\ \A i \in AppStateSlots :
              IsNone(last_op.arg.u.app_state[i]) =>
                 AppStateOf(last_op.arg.written)[i] = AppStateOf(last_op.arg.a)[i]

\* C36: for verification_key, delegate, zkapp_uri, token_symbol, voting_for,
\* permissions and each app_state slot, a zkApp step whose update carries
\* Set(v) and whose controller allows it writes v whatever the field held
\* before, also when the verification key, the delegate or the zkApp
\* extension was absent; with Keep the field is what it was.
AllowedSetIsWritten == IsFieldsOp => ( SetIsWritten /\ KeepIsKept )

\* The same for the accounts that had a verification key, a delegate (or are
\* new) and a zkApp extension before the step.
AllowedSetIsWrittenWherePresent ==
    ( /\ IsFieldsOp
      /\ IsSome(last_op.arg.u.verification_key) => IsSome(VerificationKeyOf(last_op.arg.a))
      /\ IsSome(last_op.arg.u.delegate) =>
            ( IsSome(last_op.arg.a.delegate) \/ last_op.arg.account_is_new )
      /\ IsSome(last_op.arg.u.zkapp_uri) => IsSome(last_op.arg.a.zkapp) ) =>
        ( SetIsWritten /\ KeepIsKept )

\* The failure named after each attribute.
FailureNamed(attr) ==
    CASE attr = "app_state" -> "UpdateNotPermittedAppState"
      [] attr = "verification_key" -> "UpdateNotPermittedVerificationKey"
      [] attr = "sequence_events" -> "UpdateNotPermittedSequenceState"
      [] attr = "zkapp_uri" -> "UpdateNotPermittedZkappUri"
      [] attr = "token_symbol" -> "UpdateNotPermittedTokenSymbol"
      [] attr = "delegate" -> "UpdateNotPermittedDelegate"
      [] attr = "voting_for" -> "UpdateNotPermittedVotingFor"
      [] attr = "permissions" -> "UpdateNotPermittedPermissions"
\* The update of the last call changes the attribute.
Changes(attr) ==
    CASE attr = "app_state" -> ~AllKeep(last_op.arg.u)
      [] attr = "sequence_events" -> last_op.arg.u.sequence_events # <<>>
      [] OTHER -> IsSome(last_op.arg.u[attr])
Recorded(failure) ==
    \E i \in DOMAIN last_op.arg.failures : last_op.arg.failures[i] = failure
\* The update of the attribute is denied, and so the failure of its name is
\* recorded; an attribute that is kept has no failure of its name.
DenialIsNamed(attr) ==
    /\ ( Changes(attr) /\ ~Allowed(PermissionOf(attr)) ) => Recorded(FailureNamed(attr))
    /\ ~Changes(attr) => ~Recorded(FailureNamed(attr))

\* C37: when the update of an attribute is denied by the controller of that
\* attribute, the failure recorded is the one named after the attribute;
\* sequence events denied by edit_sequence_state record
\* UpdateNotPermittedSequenceState and not the failure of app_state, and a
\* step with no sequence events records no sequence-state failure.
DenialsAreNamed ==
    IsFieldsOp =>
        /\ \A attr \in Attrs : DenialIsNamed(attr)
        /\ ( /\ Changes("sequence_events")
             /\ ~Allowed("edit_sequence_state")
             /\ AllKeep(last_op.arg.u) ) => ~Recorded("UpdateNotPermittedAppState")

\* The same for all attributes but the sequence events, in steps without
\* sequence events.
DenialsAreNamedWithoutEvents ==
    ( IsFieldsOp /\ ~Changes("sequence_events") ) =>
        \A attr \in Attrs : DenialIsNamed(attr)

\* ------------------------------------------------------------------ claims on the inner hashes of the database
\* The inner hash of the database at the address of length and pos.
InnerHash(d, length, pos) == DbEmulateTreeToGetHashAt(d, length, pos)
InnerHashesAgree(d) ==
    /\ InnerHash(d, 0, 0) = DbMerkleRootValue(d)
    /\ \A length \in 0 .. (Depth - 1) :
          \A pos \in 0 .. (2 ^ length - 1) :
             InnerHash(d, length, pos) =
                 HashNode(Depth - length - 1,
                          InnerHash(d, length + 1, 2 * pos),
                          InnerHash(d, length + 1, 2 * pos + 1))

\* C38: in every reachable state of a root database, also with empty leaves
\* below last_filled, get_inner_hash_at_addr of the root address is
\* merkle_root(), and the inner hash at every inner address is hash_node of
\* the inner hashes of its two children.
InnerHashIsMerkleRoot == InnerHashesAgree(db)

\* The same for the databases whose leaves are the first ones of the tree,
\* without a gap.
LeavesAreFirst(d) ==
    \A i \in Indices : d.leaf[i] => \A j \in Indices : j < i => d.leaf[j]
InnerHashIsMerkleRootWithoutGap == LeavesAreFirst(db) => InnerHashesAgree(db)

\* ------------------------------------------------------------------ the program of three fee excesses
\* The excesses of the three fee excesses: zero and one of each sign.
AssocValues == {0 - 1, 0, 1}
AssocExcesses ==
    [ fee_token_l : ExcessTokens, fee_excess_l : AssocValues,
      fee_token_r : ExcessTokens, fee_excess_r : AssocValues ]

\* combine of two results of combine or rebalance; a panic of either side is
\* the panic of the whole.
CombineResults(ra, rb) ==
    IF ra.tag = "panic" THEN ra
    ELSE IF rb.tag = "panic" THEN rb
    ELSE Combine(ra.value, rb.value)

\* The program is given three fee excesses.
InitAssoc ==
    /\ db = DbEmpty
    /\ masks = [m \in Masks |-> MaskEmpty]
    /\ panicked = "none"
    /\ nops = 0
    /\ limit = 1
    /\ NoZkapp
    /\ \E a \in AssocExcesses, b \in AssocExcesses, c \in AssocExcesses :
          last_op = Op("given", Root, [a |-> a, b |-> b, c |-> c], -1, "")

\* The call of combine on what the program was given.
ReturnedOfThree(name, r) ==
    /\ last_op.op = "given"
    /\ nops' = nops + 1
    /\ panicked' = IF r.tag = "panic" THEN r.err ELSE "none"
    /\ last_op' = Op(name, Root, [a |-> last_op.arg.a, b |-> last_op.arg.b,
                                  c |-> last_op.arg.c, result |-> r.value], -1, r.tag)
    /\ UNCHANGED <<db, masks, limit, global_state, local_state, command>>

\* combine(combine(a, b), c)
DoCombineLeft ==
    ReturnedOfThree("combine_left",
                    CombineResults(Combine(last_op.arg.a, last_op.arg.b), Ok(last_op.arg.c)))

\* combine(a, combine(b, c))
DoCombineRight ==
    ReturnedOfThree("combine_right",
                    CombineResults(Ok(last_op.arg.a), Combine(last_op.arg.b, last_op.arg.c)))

NextAssoc == DoCombineLeft \/ DoCombineRight

\* Runs of the program of three fee excesses.
SpecAssoc == InitAssoc /\ [][NextAssoc]_vars

\* ------------------------------------------------------------------ claims on combine
\* The fee excess of zero in the default token.
ZeroExcess == FeeExcess(DefaultToken, 0, DefaultToken, 0)

\* combine(combine(a, b), c) returned what combine(a, combine(b, c)) returns,
\* when that returns.
CombineAssociates ==
    ( last_op.op = "combine_left" /\ last_op.tag = "Ok"
      /\ CombineResults(Ok(last_op.arg.a), Combine(last_op.arg.b, last_op.arg.c)).tag = "Ok" ) =>
        CombineResults(Ok(last_op.arg.a), Combine(last_op.arg.b, last_op.arg.c)).value
            = last_op.arg.result

\* Two results are the same: both return the same value or both abort.
SameResult(r1, r2) ==
    /\ r1.tag = r2.tag
    /\ r1.tag = "Ok" => r1.value = r2.value

\* combine of x with the zero excess on either side is rebalance(x).
CombineWithZero(x) ==
    /\ SameResult(Combine(x, ZeroExcess), Rebalance(x))
    /\ SameResult(Combine(ZeroExcess, x), Rebalance(x))

\* C39: combine is associative where it is defined: when
\* combine(combine(a, b), c) and combine(a, combine(b, c)) both return, they
\* return the same; and combine of any x with the zero excess of the default
\* token, on either side, is rebalance(x).
CombineAssociativeWithUnit ==
    /\ CombineAssociates
    /\ last_op.op \in {"combine_left", "combine_right"} =>
          /\ CombineWithZero(last_op.arg.a)
          /\ last_op.tag = "Ok" => CombineWithZero(last_op.arg.result)

\* Both groupings returned, with excesses of two tokens left.
BothGroupingsReturnedReached ==
    /\ last_op.op = "combine_left"
    /\ last_op.tag = "Ok"
    /\ CombineResults(Ok(last_op.arg.a), Combine(last_op.arg.b, last_op.arg.c)).tag = "Ok"
    /\ last_op.arg.result.fee_excess_l # 0
    /\ last_op.arg.result.fee_excess_r # 0
    /\ last_op.arg.a.fee_excess_r # 0
    /\ last_op.arg.b.fee_excess_l # 0
    /\ last_op.arg.b.fee_excess_r # 0
    /\ last_op.arg.c.fee_excess_l # 0

\* ------------------------------------------------------------------ event_source_effects.rs
\* The number of events one ProcessEvents handles at most: 1024 in the code
\* (for _ in 0..1024), scaled.
MaxEventsPerBatch == 3
\* The events the service holds at most between two actions.
MaxQueued == MaxEventsPerBatch + 1

\* Event, by its variant.
Events ==
    {"P2pConnectionOutgoingInitErr", "P2pConnectionOutgoingInitOk", "P2pPubsubBytesReceived",
     "P2pRpc", "RpcGetState", "RpcP2pConnectionOutgoing", "RpcP2pPubsubPublish"}
\* The events that arrive at the service while ProcessEvents is handled.
ArrivingEvents == {"P2pRpc", "RpcGetState"}

\* An action as the store is given it; event is "" but for NewEvent.
Dispatched(action, event) == [action |-> action, event |-> event]

\* The arm EventSourceAction::NewEvent: the actions it dispatches.
NewEventEffects(event) ==
    CASE event = "P2pConnectionOutgoingInitErr" -> << Dispatched("P2pConnectionOutgoingErrorAction", "") >>
      [] event = "P2pConnectionOutgoingInitOk" -> << Dispatched("P2pConnectionOutgoingSuccessAction", "") >>
      [] event = "P2pPubsubBytesReceived" -> << Dispatched("P2pPubsubBytesReceivedAction", "") >>
      [] event = "P2pRpc" -> << >>
      [] event = "RpcGetState" -> << Dispatched("RpcGlobalStateGetAction", "") >>
      [] event = "RpcP2pConnectionOutgoing" -> << Dispatched("RpcP2pConnectionOutgoingInitAction", "") >>
      [] event = "RpcP2pPubsubPublish" -> << Dispatched("RpcP2pPubsubMessagePublishAction", "") >>

\* store.dispatch(EventSourceNewEventAction { event }): the action, then the
\* actions its effects dispatch, in the order the store is given them.
DispatchNewEvent(dispatched, event) ==
    dispatched \o << Dispatched("EventSourceNewEventAction", event) >> \o NewEventEffects(event)

\* The loop of ProcessEvents as it would be without its bound: it goes on
\* until the service has no next event.
RECURSIVE ProcessEventsLoopUnbounded(_, _, _, _)
ProcessEventsLoopUnbounded(queue, dispatched, n, arrivals) ==
    IF queue = << >> THEN [queue |-> queue, dispatched |-> dispatched]
    ELSE ProcessEventsLoopUnbounded(Tail(queue), DispatchNewEvent(dispatched, Head(queue)),
                                    n, arrivals)

\* The loop of ProcessEvents with n turns left: next_event() takes the head of
\* the queue of the service, None ends the loop. arrivals[i] is what arrives
\* at the service before turn i (None or Some(event)).
RECURSIVE ProcessEventsLoop(_, _, _, _)
ProcessEventsLoop(queue, dispatched, n, arrivals) ==
    IF n = 0 THEN [queue |-> queue, dispatched |-> dispatched]
    ELSE IF queue \o arrivals[MaxEventsPerBatch - n + 1] = << >>
    THEN [queue |-> << >>, dispatched |-> dispatched]
    ELSE ProcessEventsLoop(Tail(queue \o arrivals[MaxEventsPerBatch - n + 1]),
                           DispatchNewEvent(dispatched,
                                            Head(queue \o arrivals[MaxEventsPerBatch - n + 1])),
                           n - 1, arrivals)

\* The arm EventSourceAction::ProcessEvents: the loop, then CheckTimeoutsAction.
ProcessEvents(queue, arrivals) ==
    [ queue |-> ProcessEventsLoop(queue, << >>, MaxEventsPerBatch, arrivals).queue,
      dispatched |-> ProcessEventsLoop(queue, << >>, MaxEventsPerBatch, arrivals).dispatched
                        \o << Dispatched("CheckTimeoutsAction", "") >> ]

\* event_source_effects(store, action): the queue of the service and the
\* actions dispatched, one after the other.
EventSourceEffects(queue, action, event, arrivals) ==
    CASE action = "ProcessEvents" -> ProcessEvents(queue, arrivals)
      [] action = "NewEvent" -> [queue |-> queue, dispatched |-> NewEventEffects(event)]
      [] action = "WaitTimeout" ->
            [queue |-> queue, dispatched |-> << Dispatched("CheckTimeoutsAction", "") >>]
      [] action = "WaitForEvents" -> [queue |-> queue, dispatched |-> << >>]

\* ------------------------------------------------------------------ the event source program
\* The node starts with no event at the service. last_op keeps the queue of
\* the service and what the last action dispatched; the node runs without end
\* and its actions are not counted.
InitEvents ==
    /\ db = DbEmpty
    /\ masks = [m \in Masks |-> MaskEmpty]
    /\ panicked = "none"
    /\ nops = 0
    /\ limit = 0
    /\ NoZkapp
    /\ last_op = Op("new", Root, [queue |-> << >>, before |-> << >>, dispatched |-> << >>], -1, "")

\* The state after event_source_effects on an action.
Handled(action, event, r) ==
    /\ last_op' = Op(action, Root, [queue |-> r.queue, before |-> last_op.arg.queue,
                                    dispatched |-> r.dispatched], -1, event)
    /\ UNCHANGED <<db, masks, panicked, nops, limit, global_state, local_state, command>>

\* The service receives an event between two actions.
ServiceReceives(event) ==
    /\ Len(last_op.arg.queue) < MaxQueued
    /\ Handled("receive", event,
               [queue |-> Append(last_op.arg.queue, event), dispatched |-> << >>])

\* event_source_effects on EventSourceAction::ProcessEvents
DoProcessEvents(arrivals) ==
    Handled("ProcessEvents", "",
            EventSourceEffects(last_op.arg.queue, "ProcessEvents", "", arrivals))

\* event_source_effects on EventSourceAction::NewEvent
DoNewEvent(event) ==
    Handled("NewEvent", event,
            EventSourceEffects(last_op.arg.queue, "NewEvent", event, << >>))

\* event_source_effects on EventSourceAction::WaitTimeout
DoWaitTimeout ==
    Handled("WaitTimeout", "", EventSourceEffects(last_op.arg.queue, "WaitTimeout", "", << >>))

\* event_source_effects on EventSourceAction::WaitForEvents
DoWaitForEvents ==
    Handled("WaitForEvents", "",
            EventSourceEffects(last_op.arg.queue, "WaitForEvents", "", << >>))

NextEvents ==
    \/ \E event \in Events : ServiceReceives(event)
    \/ \E arrivals \in [1 .. MaxEventsPerBatch -> {None} \cup { Some(e) : e \in ArrivingEvents }] :
          DoProcessEvents(arrivals)
    \/ \E event \in Events : DoNewEvent(event)
    \/ DoWaitTimeout
    \/ DoWaitForEvents

\* Runs of the event source program.
SpecEvents == InitEvents /\ [][NextEvents]_vars

\* ------------------------------------------------------------------ claims on ProcessEvents
\* The places of s that hold the action named.
PlacesOf(s, action) == { i \in DOMAIN s : s[i].action = action }

\* C40: handling one ProcessEvents dispatches at most MaxEventsPerBatch (1024)
\* NewEvent actions, one for every event the service had when the batch
\* began up to that number; it dispatches fewer only when the service had no
\* next event; and it dispatches CheckTimeoutsAction exactly once, last.
ProcessEventsBoundedThenCheckTimeouts ==
    last_op.op = "ProcessEvents" =>
        /\ Cardinality(PlacesOf(last_op.arg.dispatched, "EventSourceNewEventAction"))
              <= MaxEventsPerBatch
        /\ Cardinality(PlacesOf(last_op.arg.dispatched, "EventSourceNewEventAction"))
              >= Len(last_op.arg.before)
           \/ Cardinality(PlacesOf(last_op.arg.dispatched, "EventSourceNewEventAction"))
              = MaxEventsPerBatch
        /\ Cardinality(PlacesOf(last_op.arg.dispatched, "EventSourceNewEventAction"))
              < MaxEventsPerBatch => last_op.arg.queue = << >>
        /\ PlacesOf(last_op.arg.dispatched, "CheckTimeoutsAction")
              = { Len(last_op.arg.dispatched) }

\* A full batch that left events at the service, and still checked timeouts.
FullBatchLeavesEventsReached ==
    /\ last_op.op = "ProcessEvents"
    /\ Cardinality(PlacesOf(last_op.arg.dispatched, "EventSourceNewEventAction"))
          = MaxEventsPerBatch
    /\ last_op.arg.queue # << >>
    /\ last_op.arg.dispatched[Len(last_op.arg.dispatched)].action = "CheckTimeoutsAction"

====
